---- MODULE Spec2Model ----
(***************************************************************************)
(* Hair salon game: strand store (HairSystem), tool engine (ToolManager),  *)
(* detachment physics (PhysicsEngine) and the game coordinator             *)
(* (HairSalonGame), as one state machine.                                  *)
(*                                                                         *)
(* Units.  Pixel coordinates of strands and of the pointer are integers.   *)
(* Angles are fixed-point numbers in milliradians; like an IEEE double an  *)
(* angle has a finite resolution, and a product is rounded to the nearest  *)
(* representable value.  Layer depths are in thousandths.  The x of a      *)
(* falling particle is kept in half pixels, so that a horizontal drift in  *)
(* [-0.5, 0.5] is an integer, and strand lengths are in tenths of a pixel. *)
(* Math.random() is a nondeterministic draw from a small set.              *)
(***************************************************************************)
EXTENDS Integers, Sequences, FiniteSets, TLC

(***************************************************************************)
(* Bounds of the model.                                                    *)
(***************************************************************************)
\* canvas.height; the page uses 600, the model a lower canvas so that a
\* detached strand reaches the cleanup line after a few ticks
CanvasHeight == 178
\* strands added with the add tool in one run
MaxAdded == 5
\* pointer, tool-button and reset events in one run
MaxEvents == 5
\* combHairAtPosition calls in one run
MaxCombs == 1
\* HairSalonGame.reset calls in one run
MaxResets == 1
\* population parameters of the character profile (strandsPerCircle.base,
\* centerFillStrands, generationRadius.maxRadius), reduced so that the
\* generated population stays small
GenBase == 1
GenCenterFill == 1
GenMaxRadius == 0
\* combHairAtPosition calls on one strand in the comb specification
MaxCombCalls == 30
\* pointer events and queries in one run of the store specification
MaxStoreOps == 2

(***************************************************************************)
(* Program constants (GameConfig).                                         *)
(***************************************************************************)
CleanupDistance == 50
PaintRadius == 30
ShaveRadius == 15
CombRadius == 50
StrandsPerClick == 5
\* tools.comb.influence = 0.3 = InfluenceNum / InfluenceDen
InfluenceNum == 3
InfluenceDen == 10
\* Math.PI in milliradians
Pi == 3142
\* generationRadius.step
GenStep == 3
\* strandsPerCircle.multiplier and volumeMultiplier of the male profile, in tenths
GenMultiplier == 25
GenVolumeMultiplier == 10
\* physics.fallSpeed range, physics.rotationSpeed range in milliradians,
\* physics.horizontalDrift range in half pixels
FallSpeedMin == 2
FallSpeedMax == 4
RotationSpeedMax == 100
HorizontalDriftMax == 1
\* strandLength of the male profile
StrandLengthMin == 20
StrandLengthMax == 30

\* half the width of the red cross of showInvalidAreaFeedback
CrossArm == 10
\* radius of the area cleared when the cross is removed, and shave.clearSize
CrossClearRadius == 15
ShaveClearSize == 30
\* GameConfig.ui.invalidFeedback.blinkCount
BlinkCount == 4

Null == 0
DefaultColor == "#8B4513"
Colors == {DefaultColor, "#FF0000"}
Tools == {"paint", "addHair", "comb", "shave"}

\* GameConfig.characters[c].hairCenter and hairRadius
Characters ==
  [male   |-> [hairCenter |-> [x |-> 305, y |-> 220], hairRadius |-> 90],
   female |-> [hairCenter |-> [x |-> 305, y |-> 210], hairRadius |-> 85]]

\* layer depths of a profile, back to front, in thousandths
LayerDepths == <<400, 700, 1000>>

\* volume zones of generateHair: centre offset and multiplier in tenths
VolumeZones ==
  << [dx |-> 0,   dy |-> 0,  multiplier |-> 10],
     [dx |-> -10, dy |-> -5, multiplier |-> 7],
     [dx |-> 10,  dy |-> -5, multiplier |-> 7],
     [dx |-> 0,   dy |-> -8, multiplier |-> 8] >>

(***************************************************************************)
(* Inputs: pointer positions and random draws.                             *)
(***************************************************************************)
\* pointer positions: one inside the hair zone, one below the head centre; the
\* second is at distance 15 of the base (305, 219) of a generated strand
Points ==
  { [x |-> 305, y |-> 205], [x |-> 305, y |-> 234] }

\* random draws of one added strand: Math.random() * 2 * PI (+ curliness),
\* randomBetween(strandLength), a layer of the profile, the volume offset
AddDraws ==
  { [angle |-> 0,    length |-> 200, layer |-> 3, volumeOffset |-> 0],
    [angle |-> 1570, length |-> 290, layer |-> 1, volumeOffset |-> 2] }

\* the draws of the strands of one click, one per strand
AddPatterns ==
  { [i \in 1..StrandsPerClick |-> CHOOSE d \in AddDraws : d.layer = 3],
    [i \in 1..StrandsPerClick |->
       IF i % 2 = 1 THEN CHOOSE d \in AddDraws : d.layer = 3
                    ELSE CHOOSE d \in AddDraws : d.layer = 1] }

\* random draws of one generated strand: the jitter of its base (angle and
\* radius variation, volume offset), the jitter of its angle, its length
GenDraws ==
  { [jx |-> 0,  jy |-> -1, angle |-> 100,  length |-> 250],
    [jx |-> -1, jy |-> 0,  angle |-> -200, length |-> 290] }

\* random draws of one particle: rotationSpeed, fallSpeed, horizontalDrift
ParticleDraws ==
  { [rotationSpeed |-> 100,  fallSpeed |-> 4, horizontalDrift |-> 1],
    [rotationSpeed |-> -100, fallSpeed |-> 2, horizontalDrift |-> -1] }

(***************************************************************************)
(* Utils.                                                                  *)
(***************************************************************************)
Abs(n) == IF n < 0 THEN -n ELSE n

\* n / d rounded to the nearest integer (d > 0), a tie towards zero
RoundDiv(n, d) ==
  IF n >= 0 THEN (2 * n + d - 1) \div (2 * d)
            ELSE -((2 * (-n) + d - 1) \div (2 * d))

\* the integer part of the square root of n, searched between lo and hi
RECURSIVE SqrtSearch(_, _, _)
SqrtSearch(n, lo, hi) ==
  IF lo >= hi THEN lo
  ELSE LET mid == (lo + hi + 1) \div 2
       IN  IF mid * mid <= n THEN SqrtSearch(n, mid, hi)
                             ELSE SqrtSearch(n, lo, mid - 1)

\* Math.sqrt of a natural number: its integer part, and whether it is exact
SqrtOf(n) ==
  LET f == SqrtSearch(n, 0, n)
  IN  [floor |-> f, exact |-> (f * f = n)]

\* the square roots of the squared distances that occur, computed once
SqrtMemoMax == 2 * 128 * 128
SqrtMemo == [n \in 0..SqrtMemoMax |-> SqrtOf(n)]
Sqrt(n) == IF n <= SqrtMemoMax THEN SqrtMemo[n] ELSE SqrtOf(n)

\* Utils.calculateDistance
calculateDistance(x1, y1, x2, y2) ==
  Sqrt((x2 - x1) * (x2 - x1) + (y2 - y1) * (y2 - y1))

\* distance < radius
DistLT(distance, radius) == distance.floor < radius
\* distance <= radius, for a distance returned by calculateDistance
DistLE(distance, radius) ==
  \/ distance.floor < radius
  \/ distance.floor = radius /\ distance.exact

\* an isInHairZone whose lower edge is exclusive
isInHairZoneAbove(av, x, y) ==
  DistLE(calculateDistance(x, y, av.centerX, av.centerY), av.hairRadius) /\ y < av.centerY
\* Utils.isInHairZone, reading GameConfig.avatar
isInHairZone(av, x, y) ==
  LET distance == calculateDistance(x, y, av.centerX, av.centerY)
  IN  DistLE(distance, av.hairRadius) /\ y <= av.centerY

(***************************************************************************)
(* HairSystem: the strand store.  A strand is a record; sid is the         *)
(* identity of the strand object (bookkeeping, read by no operation).      *)
(***************************************************************************)
\* Math.atan(n / d) for 0 <= n <= d, d > 0, in milliradians
AtanRatio(n, d) == (n * (785 * d + 273 * (d - n))) \div (d * d)

\* Math.atan2(dy, dx) in milliradians
Atan2(dy, dx) ==
  LET a == Abs(dx)
      b == Abs(dy)
      base == IF a = 0 /\ b = 0 THEN 0
              ELSE IF a >= b THEN AtanRatio(b, a)
              ELSE (Pi \div 2) - AtanRatio(a, b)
      upper == IF dx >= 0 THEN base ELSE Pi - base
  IN  IF dy >= 0 THEN upper ELSE -upper

\* an addHairStrand that puts the new strand in front (unshift)
addHairStrandFront(hs, baseX, baseY, angle, length, color, waveConfig, layerDepth, sid) ==
  << [baseX |-> baseX, baseY |-> baseY, angle |-> angle,
      length |-> length, color |-> color, waveConfig |-> waveConfig,
      layerDepth |-> layerDepth, sid |-> sid] >> \o hs
\* HairSystem.addHairStrand
addHairStrand(hs, baseX, baseY, angle, length, color, waveConfig, layerDepth, sid) ==
  Append(hs, [baseX |-> baseX, baseY |-> baseY, angle |-> angle,
              length |-> length, color |-> color, waveConfig |-> waveConfig,
              layerDepth |-> layerDepth, sid |-> sid])

\* the loop of addHairAtPosition from strand i on; pat[i] are the random draws
RECURSIVE AddLoop(_, _, _, _, _, _, _, _)
AddLoop(hs, i, x, y, color, characterType, pat, nextId) ==
  IF i > StrandsPerClick THEN hs
  ELSE LET angle == pat[i].angle
           length == pat[i].length
           randomLayer == LayerDepths[pat[i].layer]
           volumeOffset == pat[i].volumeOffset
           volumeX == x + volumeOffset
           volumeY == y + (volumeOffset \div 2)
       IN  AddLoop(addHairStrand(hs, volumeX, volumeY, angle, length, color,
                                 characterType, randomLayer, nextId + i),
                   i + 1, x, y, color, characterType, pat, nextId)

\* an addHairAtPosition that does not test the zone
addHairAtPositionAnywhere(av, hs, x, y, color, characterType, pat, nextId) ==
  [strands |-> AddLoop(hs, 1, x, y, color, characterType, pat, nextId), ok |-> TRUE]
\* HairSystem.addHairAtPosition: the store afterwards and the value returned
addHairAtPosition(av, hs, x, y, color, characterType, pat, nextId) ==
  IF ~isInHairZone(av, x, y)
    THEN [strands |-> hs, ok |-> FALSE]
    ELSE [strands |-> AddLoop(hs, 1, x, y, color, characterType, pat, nextId),
          ok |-> TRUE]

\* a paintHairAtPosition that alternates between the new colour and the default
paintHairAtPositionToggle(hs, x, y, color) ==
  LET hit(i) == DistLE(calculateDistance(hs[i].baseX, hs[i].baseY, x, y), PaintRadius)
  IN  [strands |-> [i \in 1..Len(hs) |->
                      IF hit(i)
                        THEN [hs[i] EXCEPT !.color = IF @ = color THEN DefaultColor ELSE color]
                        ELSE hs[i]],
       found |-> (\E i \in 1..Len(hs) : hit(i))]
\* HairSystem.paintHairAtPosition: the store afterwards and foundHair
paintHairAtPosition(hs, x, y, color) ==
  LET hit(i) == DistLE(calculateDistance(hs[i].baseX, hs[i].baseY, x, y), PaintRadius)
  IN  [strands |-> [i \in 1..Len(hs) |->
                      IF hit(i) THEN [hs[i] EXCEPT !.color = color] ELSE hs[i]],
       found |-> (\E i \in 1..Len(hs) : hit(i))]

\* the sequence s without its i-th element (Array.splice(i, 1))
Splice(s, i) == SubSeq(s, 1, i - 1) \o SubSeq(s, i + 1, Len(s))

\* a shave test that leaves out the strands exactly on the circle
InShaveRadiusStrict(strand, x, y) ==
  calculateDistance(strand.baseX, strand.baseY, x, y).floor < ShaveRadius
\* the test of the loop of shaveHairAtPosition: distance <= effectRadius
InShaveRadius(strand, x, y) ==
  DistLE(calculateDistance(strand.baseX, strand.baseY, x, y), ShaveRadius)

\* the loop of shaveHairAtPosition, from index i down to 1
RECURSIVE ShaveLoop(_, _, _, _, _)
ShaveLoop(hs, removedHair, i, x, y) ==
  IF i < 1 THEN [strands |-> hs, removed |-> removedHair]
  ELSE IF InShaveRadius(hs[i], x, y)
         THEN ShaveLoop(Splice(hs, i), Append(removedHair, hs[i]), i - 1, x, y)
         ELSE ShaveLoop(hs, removedHair, i - 1, x, y)

\* a shaveHairAtPosition that returns the removed strands in store order
shaveHairAtPositionForward(hs, x, y) ==
  [strands |-> SelectSeq(hs, LAMBDA strand : ~InShaveRadius(strand, x, y)),
   removed |-> SelectSeq(hs, LAMBDA strand : InShaveRadius(strand, x, y))]
\* HairSystem.shaveHairAtPosition: the store afterwards and the removed copies
shaveHairAtPosition(hs, x, y) == ShaveLoop(hs, <<>>, Len(hs), x, y)

\* a nudge of full influence
NudgeFull(angle, combAngle) == angle + (combAngle - angle)
\* strand.angle += angleDiff * influence
Nudge(angle, combAngle) ==
  LET angleDiff == combAngle - angle
  IN  angle + RoundDiv(angleDiff * InfluenceNum, InfluenceDen)

\* a combHairAtPosition that nudges every strand of the store
combHairAtPositionAll(hs, x, y, dx, dy) ==
  [i \in 1..Len(hs) |-> [hs[i] EXCEPT !.angle = Nudge(hs[i].angle, Atan2(dy, dx))]]
\* HairSystem.combHairAtPosition
combHairAtPosition(hs, x, y, dx, dy) ==
  LET combAngle == Atan2(dy, dx)
  IN  [i \in 1..Len(hs) |->
         IF DistLE(calculateDistance(hs[i].baseX, hs[i].baseY, x, y), CombRadius)
           THEN [hs[i] EXCEPT !.angle = Nudge(hs[i].angle, combAngle)]
           ELSE hs[i]]

\* Utils.findHairStrandsInRadius
findHairStrandsInRadius(hs, x, y, radius) ==
  SelectSeq(hs, LAMBDA strand :
                  DistLE(calculateDistance(strand.baseX, strand.baseY, x, y), radius))

\* the sort key of redrawAllHair: a.layerDepth || 1.0
DepthKey(strand) == IF strand.layerDepth = 0 THEN 1000 ELSE strand.layerDepth

\* strand put into the sorted sequence s behind the strands of a key not
\* greater than its own (Array.prototype.sort is stable)
RECURSIVE InsertByDepth(_, _)
InsertByDepth(s, strand) ==
  IF Len(s) = 0 THEN << strand >>
  ELSE IF DepthKey(s[Len(s)]) <= DepthKey(strand) THEN Append(s, strand)
  ELSE Append(InsertByDepth(SubSeq(s, 1, Len(s) - 1), strand), s[Len(s)])

\* Op applied to a value that is computed once
Once(value, Op(_)) == CHOOSE result \in {Op(v) : v \in {value}} : TRUE

\* [...hairStrands].sort((a, b) => depthA - depthB), the first n strands
RECURSIVE SortByDepth(_, _)
SortByDepth(hs, n) ==
  IF n = 0 THEN <<>>
  ELSE Once(SortByDepth(hs, n - 1), LAMBDA sorted : InsertByDepth(sorted, hs[n]))

\* the calls of redrawAllHair for the sorted strands
DrawCalls(sortedStrands) ==
  << [call |-> "clearRect", sid |-> 0, layerDepth |-> 0] >> \o
  [i \in 1..Len(sortedStrands) |->
     [call |-> "drawHairStrand", sid |-> sortedStrands[i].sid,
      waveConfig |-> sortedStrands[i].waveConfig,
      layerDepth |-> DepthKey(sortedStrands[i])]]

\* a redrawAllHair that draws the strands in store order
redrawAllHairUnsorted(hs) ==
  << [call |-> "clearRect", sid |-> 0, layerDepth |-> 0] >> \o
  [i \in 1..Len(hs) |->
     [call |-> "drawHairStrand", sid |-> hs[i].sid,
      waveConfig |-> hs[i].waveConfig, layerDepth |-> DepthKey(hs[i])]]
\* HairSystem.redrawAllHair: the calls it makes on the canvas, in order
redrawAllHair(hs) ==
  Once(hs, LAMBDA strands : Once(SortByDepth(strands, Len(strands)), DrawCalls))

(***************************************************************************)
(* HairSystem.generateHair.                                                *)
(***************************************************************************)
\* Math.sin of an angle in [0, Pi] milliradians, in thousandths
SinHalf(a) ==
  LET p == a * (Pi - a)
  IN  (1600 * (p \div 100)) \div ((5 * Pi * Pi - 4 * p) \div 1000)

\* Math.sin and Math.cos of an angle in [-2 Pi, 2 Pi] milliradians, in thousandths
Sin(a) ==
  LET b == IF a > Pi THEN a - 2 * Pi ELSE IF a < -Pi THEN a + 2 * Pi ELSE a
  IN  IF b >= 0 THEN SinHalf(b) ELSE -SinHalf(-b)
Cos(a) == Sin(a + (Pi \div 2))

\* the concatenation f[1] \o ... \o f[n] of the sequences f[i]
RECURSIVE Flatten(_, _)
Flatten(f, n) == IF n = 0 THEN <<>> ELSE Flatten(f, n - 1) \o f[n]

\* GameConfig.characters[c].hairStyle: strandsPerCircle.multiplier and
\* volumeMultiplier in tenths; the layer depths back to front
HairStyles ==
  [male   |-> [base |-> 16, multiplier |-> 25, volumeMultiplier |-> 10,
               step |-> 3, maxRadius |-> 70, centerFillStrands |-> 24,
               strandLengthMax |-> 30, defaultColor |-> "#8B4513",
               layerDepths |-> LayerDepths],
   female |-> [base |-> 20, multiplier |-> 30, volumeMultiplier |-> 12,
               step |-> 3, maxRadius |-> 75, centerFillStrands |-> 30,
               strandLengthMax |-> 40, defaultColor |-> "#D2691E",
               layerDepths |-> LayerDepths]]

\* the male hair style with its population parameters reduced to the bounds
ReducedStyle ==
  [HairStyles.male EXCEPT !.base = GenBase, !.maxRadius = GenMaxRadius,
                          !.centerFillStrands = GenCenterFill,
                          !.multiplier = GenMultiplier,
                          !.volumeMultiplier = GenVolumeMultiplier,
                          !.step = GenStep,
                          !.strandLengthMax = StrandLengthMax]

\* the hair style of a character with its population parameters reduced to the bounds
ReducedStyleOf(characterType) ==
  IF characterType = "male" THEN ReducedStyle
  ELSE [HairStyles[characterType] EXCEPT !.base = GenBase, !.maxRadius = GenMaxRadius,
                                         !.centerFillStrands = GenCenterFill]

\* the radii of the rings of a zone: 0, step, ... while radius <= maxRadius * multiplier
RingRadiiOf(style, zone) ==
  LET last == (style.maxRadius * zone.multiplier) \div (10 * style.step)
  IN  [r \in 1..(last + 1) |-> (r - 1) * style.step]
RingRadii(zone) == RingRadiiOf(ReducedStyle, zone)

\* baseStrandsInCircle of a ring
baseStrandsInCircleOf(style, radius) ==
  LET scaled == (radius * style.multiplier * style.volumeMultiplier) \div 100
  IN  IF style.base >= scaled THEN style.base ELSE scaled
baseStrandsInCircle(radius) == baseStrandsInCircleOf(ReducedStyle, radius)

\* the base counts up to 400 whose product with zoneMultiplier, computed in
\* IEEE-754 doubles, falls just short of the whole number it equals exactly;
\* zoneMultiplier = zone.multiplier * layerDepth is the double 0.7,
\* 0.27999999999999997, 0.5599999999999999 or 0.48999999999999994
ShortProducts(zone, layerDepth) ==
  LET zoneMultiplier == zone.multiplier * layerDepth
  IN  IF zoneMultiplier = 7000 THEN {90, 170, 180, 330, 340, 350, 360}
      ELSE IF zoneMultiplier = 2800 \/ zoneMultiplier = 5600 THEN {25 * k : k \in 1..16}
      ELSE IF zoneMultiplier = 4900 THEN {100, 200, 300, 400}
      ELSE {}

\* a strandsInCircle that ignores the zone and the layer
strandsInCircleOfBase(style, zone, layerDepth, radius) ==
  baseStrandsInCircleOf(style, radius)
\* strandsInCircle of a ring of a zone and a layer:
\* Math.floor(baseStrandsInCircle * zoneMultiplier)
strandsInCircleOf(style, zone, layerDepth, radius) ==
  LET base == baseStrandsInCircleOf(style, radius)
      exact == (base * zone.multiplier * layerDepth) \div 10000
  IN  IF base \in ShortProducts(zone, layerDepth) THEN exact - 1 ELSE exact
strandsInCircle(zone, layerDepth, radius) ==
  strandsInCircleOf(ReducedStyle, zone, layerDepth, radius)

\* the placements of the ring pass, in generation order: for each zone, layer,
\* ring and index the exact base before jitter, the outward angle and the
\* effective layer depth
RingPlacementsOf(style, centerX, centerY) ==
  LET ring(zone, layerDepth, radius) ==
        LET n == strandsInCircleOf(style, zone, layerDepth, radius)
        IN  [i \in 1..n |->
               LET baseAngle == (((i - 1) * Pi) \div n) - Pi
               IN  [x |-> centerX + zone.dx + (Cos(baseAngle) * radius) \div 1000,
                    y |-> centerY + zone.dy + (Sin(baseAngle) * radius) \div 1000,
                    angle |-> baseAngle,
                    length |-> 0,
                    layerDepth |-> (layerDepth * (800 + 20 * zone.multiplier)) \div 1000]]
      layer(zone, layerDepth) ==
        LET radii == RingRadiiOf(style, zone)
        IN  Flatten([r \in 1..Len(radii) |-> ring(zone, layerDepth, radii[r])], Len(radii))
      zoneAll(zone) ==
        Flatten([l \in 1..Len(style.layerDepths) |-> layer(zone, style.layerDepths[l])],
                Len(style.layerDepths))
  IN  Flatten([z \in 1..Len(VolumeZones) |-> zoneAll(VolumeZones[z])], Len(VolumeZones))
RingPlacements(centerX, centerY) == RingPlacementsOf(ReducedStyle, centerX, centerY)

\* a centre-fill pass that stores 1 - layerDepth as the depth of its strands
FillPlacementsOfInverted(style, centerX, centerY) ==
  LET layer(layerDepth) ==
        LET n == (style.centerFillStrands * layerDepth) \div 1000
        IN  [i \in 1..n |->
               [x |-> centerX, y |-> centerY, angle |-> -Pi,
                length |-> 10 * style.strandLengthMax,
                layerDepth |-> 1000 - layerDepth]]
  IN  Flatten([l \in 1..Len(style.layerDepths) |-> layer(style.layerDepths[l])],
              Len(style.layerDepths))
\* the placements of the centre-fill pass: one unit left of ... right of the
\* centre on the upper semicircle, at the least distance 1 + (1 - layerDepth) * 2
FillPlacementsOf(style, centerX, centerY) ==
  LET layer(layerDepth) ==
        LET n == (style.centerFillStrands * layerDepth) \div 1000
            distance == 1 + (2 * (1000 - layerDepth)) \div 1000
        IN  [i \in 1..n |->
               LET angle == (((i - 1) * Pi) \div n) - Pi
               IN  [x |-> centerX + (Cos(angle) * distance) \div 1000,
                    y |-> centerY + (Sin(angle) * distance) \div 1000,
                    angle |-> angle,
                    length |-> 10 * style.strandLengthMax + (1000 - layerDepth) \div 20,
                    layerDepth |-> layerDepth]]
  IN  Flatten([l \in 1..Len(style.layerDepths) |-> layer(style.layerDepths[l])],
              Len(style.layerDepths))
FillPlacements(centerX, centerY) == FillPlacementsOf(ReducedStyle, centerX, centerY)

\* the number of strands generateHair creates
GenCount == Len(RingPlacements(0, 0)) + Len(FillPlacements(0, 0))

\* HairSystem.generateHair for a hair style: the new population, which
\* replaces the store; pat[k] are the random draws of the k-th strand,
\* nextId + k its identity
generateHairOf(style, characterType, pat, nextId) ==
  LET c == Characters[characterType].hairCenter
      rings == RingPlacementsOf(style, c.x, c.y)
      fill == FillPlacementsOf(style, c.x, c.y)
      all == rings \o fill
  IN  [k \in 1..Len(all) |->
         [baseX |-> all[k].x + pat[k].jx,
          baseY |-> all[k].y + pat[k].jy,
          angle |-> all[k].angle + pat[k].angle,
          length |-> IF k <= Len(rings) THEN pat[k].length ELSE all[k].length,
          color |-> style.defaultColor,
          waveConfig |-> characterType,
          layerDepth |-> all[k].layerDepth,
          sid |-> nextId + k]]
generateHair(characterType, pat, nextId) ==
  generateHairOf(ReducedStyleOf(characterType), characterType, pat, nextId)

\* the most strands a store can hold, and so the most one shave detaches
MaxBatch == GenCount + MaxAdded

\* the draws of the n strands of one generation, by position in the population
GenPatternsFor(n) ==
  { [k \in 1..n |-> CHOOSE d \in GenDraws : d.jx = 0],
    [k \in 1..n |->
       IF k % 2 = 1 THEN CHOOSE d \in GenDraws : d.jx = -1
                    ELSE CHOOSE d \in GenDraws : d.jx = 0] }
GenPatterns == GenPatternsFor(MaxBatch)

\* the draws of the particles of one shave: by position in the batch
ParticlePatterns ==
  { [i \in 1..MaxBatch |-> CHOOSE d \in ParticleDraws : d.fallSpeed = 4],
    [i \in 1..MaxBatch |->
       IF i % 2 = 1 THEN CHOOSE d \in ParticleDraws : d.fallSpeed = 2
                    ELSE CHOOSE d \in ParticleDraws : d.fallSpeed = 4] }

(***************************************************************************)
(* The canvas.  Of what is drawn the model keeps the zone guide and the    *)
(* red crosses of rejected adds: guide is TRUE while the outline drawn by  *)
(* drawHairZoneGuide has not been cleared, cross holds the positions of    *)
(* the crosses not yet cleared.                                            *)
(***************************************************************************)
BlankCanvas == [guide |-> FALSE, cross |-> {}]

\* a timer just set: the blink interval of showBlinkingHairZone with its
\* blinkCount, the timeout that removes the cross drawn at (x, y), the timeout
\* that generates the hair of characterId
NewTimer(kind) == [kind |-> kind, blinkCount |-> 0, x |-> 0, y |-> 0, characterId |-> ""]

\* ctx.clearRect(0, 0, canvas.width, canvas.height)
clearCanvas(w) == [w EXCEPT !.canvas = BlankCanvas]

\* ctx.clearRect(x - radius, y - radius, radius * 2, radius * 2): a cross, ten
\* pixels to each side of its position, goes when the rectangle covers it;
\* the outline of the zone is larger than the rectangle and stays
clearRectAround(w, x, y, radius) ==
  [w EXCEPT !.canvas.cross =
     {c \in @ : ~(Abs(c[1] - x) + CrossArm <= radius /\ Abs(c[2] - y) + CrossArm <= radius)}]

(***************************************************************************)
(* PhysicsEngine.  The operations act on a world record w that holds the   *)
(* fields of all objects; raf is the browser's list of pending animation   *)
(* frame callbacks, by handle, in the order they were requested.  A handle *)
(* names a pending callback only, so a handle that has fired or has been   *)
(* cancelled is given out again.                                           *)
(***************************************************************************)
\* window.requestAnimationFrame: the handle of the new callback
FreshHandle(w) ==
  CHOOSE h \in 1..(Len(w.raf) + 1) : \A i \in 1..Len(w.raf) : w.raf[i] # h

\* window.cancelAnimationFrame
cancelAnimationFrame(w, h) ==
  [w EXCEPT !.raf = SelectSeq(w.raf, LAMBDA g : g # h)]

\* PhysicsEngine.startAnimation
startAnimation(w) ==
  IF ~w.isAnimating THEN [w EXCEPT !.isAnimating = TRUE] ELSE w

\* PhysicsEngine.stopAnimation
stopAnimation(w) ==
  LET c == IF w.animationId # Null
             THEN [cancelAnimationFrame(w, w.animationId) EXCEPT !.animationId = Null]
             ELSE w
  IN  [c EXCEPT !.isAnimating = FALSE]

\* a createFallingHair that makes two particles of a strand
createFallingHairTwice(w, hairStrand, draw) ==
  LET p == [x |-> 2 * hairStrand.baseX, y |-> hairStrand.baseY,
            angle |-> hairStrand.angle, length |-> hairStrand.length,
            color |-> hairStrand.color, rotation |-> hairStrand.angle,
            rotationSpeed |-> draw.rotationSpeed, fallSpeed |-> draw.fallSpeed,
            horizontalDrift |-> draw.horizontalDrift,
            sid |-> hairStrand.sid, y0 |-> hairStrand.baseY, ticks |-> 0]
  IN  [w EXCEPT !.fallingHair = @ \o << p, p >>, !.isAnimating = TRUE]
\* a createFallingHair that gives every particle the default color
createFallingHairDefaultColor(w, hairStrand, draw) ==
  LET fallingParticle ==
        [x |-> 2 * hairStrand.baseX, y |-> hairStrand.baseY,
         angle |-> hairStrand.angle, length |-> hairStrand.length,
         color |-> DefaultColor, rotation |-> hairStrand.angle,
         rotationSpeed |-> draw.rotationSpeed, fallSpeed |-> draw.fallSpeed,
         horizontalDrift |-> draw.horizontalDrift,
         sid |-> hairStrand.sid, y0 |-> hairStrand.baseY, ticks |-> 0]
      pushed == [w EXCEPT !.fallingHair = Append(@, fallingParticle),
                          !.last.particles = Append(@, fallingParticle)]
  IN  IF ~pushed.isAnimating THEN startAnimation(pushed) ELSE pushed
\* PhysicsEngine.createFallingHair; draw holds the three random samples
createFallingHair(w, hairStrand, draw) ==
  LET fallingParticle ==
        [x |-> 2 * hairStrand.baseX, y |-> hairStrand.baseY,
         angle |-> hairStrand.angle, length |-> hairStrand.length,
         color |-> hairStrand.color, rotation |-> hairStrand.angle,
         rotationSpeed |-> draw.rotationSpeed, fallSpeed |-> draw.fallSpeed,
         horizontalDrift |-> draw.horizontalDrift,
         sid |-> hairStrand.sid, y0 |-> hairStrand.baseY, ticks |-> 0]
      pushed == [w EXCEPT !.fallingHair = Append(@, fallingParticle),
                          !.last.particles = Append(@, fallingParticle)]
  IN  IF ~pushed.isAnimating THEN startAnimation(pushed) ELSE pushed

\* PhysicsEngine.createMultipleFallingHair, from the i-th strand on
RECURSIVE createMultipleFallingHair(_, _, _, _)
createMultipleFallingHair(w, hairStrands, pat, i) ==
  IF i > Len(hairStrands) THEN w
  ELSE createMultipleFallingHair(createFallingHair(w, hairStrands[i], pat[i]),
                                 hairStrands, pat, i + 1)

\* a cleanup test that removes a particle on the cleanup line already
BelowCanvasOrOn(hair) == hair.y >= CanvasHeight + CleanupDistance
\* the cleanup test of updateFallingHair
BelowCanvas(hair) == hair.y > CanvasHeight + CleanupDistance

\* a particle update under gravity: the fall speed grows with every step
MoveParticleAccelerating(hair) ==
  [hair EXCEPT !.y = @ + hair.fallSpeed,
               !.x = @ + hair.horizontalDrift,
               !.rotation = @ + hair.rotationSpeed,
               !.fallSpeed = @ + 1,
               !.ticks = @ + 1]
\* the update of one particle in updateFallingHair
MoveParticle(hair) ==
  [hair EXCEPT !.y = @ + hair.fallSpeed,
               !.x = @ + hair.horizontalDrift,
               !.rotation = @ + hair.rotationSpeed,
               !.ticks = @ + 1]

\* the loop of updateFallingHair, from index i down to 1
UpdateStep(w, i) ==
  LET hair == MoveParticle(w.fallingHair[i])
  IN  IF BelowCanvas(hair)
        THEN [w EXCEPT !.fallingHair = Splice(@, i),
                       !.cleaned = @ + 1,
                       !.last.swept = Append(@, hair)]
        ELSE [w EXCEPT !.fallingHair[i] = hair]
RECURSIVE UpdateLoop(_, _)
UpdateLoop(w, i) ==
  IF i < 1 THEN w
  ELSE UpdateLoop(Once(w, LAMBDA v : UpdateStep(v, i)), i - 1)

\* an updateFallingHair that moves the particles and removes none
updateFallingHairKeepAll(w) ==
  [w EXCEPT !.fallingHair =
     [i \in 1..Len(@) |-> [@[i] EXCEPT !.y = @ + w.fallingHair[i].fallSpeed,
                                       !.x = @ + w.fallingHair[i].horizontalDrift,
                                       !.rotation = @ + w.fallingHair[i].rotationSpeed,
                                       !.ticks = @ + 1]]]
\* PhysicsEngine.updateFallingHair
updateFallingHair(w) == UpdateLoop(w, Len(w.fallingHair))

\* PhysicsEngine.drawFallingHair: one stroke per particle, from its position
\* along its rotation
drawFallingHair(particles) ==
  [i \in 1..Len(particles) |->
     [call |-> "drawFallingHair", sid |-> particles[i].sid,
      x |-> particles[i].x, y |-> particles[i].y,
      rotation |-> particles[i].rotation]]

\* the drawing of one tick: the canvas is cleared, the static strands are
\* redrawn, then the particles are drawn
TickCalls(strands, particles) ==
  << [call |-> "clearRect", sid |-> 0, layerDepth |-> 0] >>
    \o redrawAllHair(strands) \o drawFallingHair(particles)

\* an animationLoop that draws the particles before it moves them
animationLoopDrawFirst(w) ==
  IF Len(w.fallingHair) = 0 THEN stopAnimation(w)
  ELSE LET c == clearCanvas(w)
           d == [c EXCEPT !.last.drawn = @ \o TickCalls(c.hairStrands, c.fallingHair)]
           u == updateFallingHair(d)
           h == FreshHandle(u)
       IN  [u EXCEPT !.raf = Append(@, h), !.animationId = h]

\* an animationLoop that requests no further frame
animationLoopNoRequest(w) ==
  IF Len(w.fallingHair) = 0 THEN stopAnimation(w)
  ELSE LET c == clearCanvas(w)
           u == updateFallingHair(c)
       IN  [u EXCEPT !.last.drawn = @ \o TickCalls(c.hairStrands, u.fallingHair)]

\* the request of the next frame that ends a tick
RequestFrame(w) ==
  LET h == FreshHandle(w)
  IN  [w EXCEPT !.raf = Append(@, h), !.animationId = h]

\* the body of a tick that found particles
Tick(w) ==
  LET drawStatic(c) ==
        [c EXCEPT !.last.drawn =
           @ \o << [call |-> "clearRect", sid |-> 0, layerDepth |-> 0] >>
             \o redrawAllHair(c.hairStrands)]
      drawParticles(u) ==
        [u EXCEPT !.last.drawn = @ \o drawFallingHair(u.fallingHair)]
  IN  Once(Once(Once(Once(clearCanvas(w), drawStatic), updateFallingHair),
                drawParticles), RequestFrame)

\* an animationLoop that requests the next frame also when it finds no particle
animationLoopForever(w) ==
  IF Len(w.fallingHair) = 0 THEN RequestFrame(stopAnimation(w)) ELSE Once(w, Tick)

\* PhysicsEngine.animationLoop
animationLoop(w) ==
  IF Len(w.fallingHair) = 0 THEN stopAnimation(w) ELSE Once(w, Tick)

\* PhysicsEngine.initializeAnimation
initializeAnimation(w) ==
  IF w.isAnimating /\ Len(w.fallingHair) > 0 THEN animationLoop(w) ELSE w

\* PhysicsEngine.clearAllFallingHair
clearAllFallingHair(w) == stopAnimation([w EXCEPT !.fallingHair = <<>>])

\* one display frame: the callbacks pending when the frame starts run in the
\* order they were requested, each unless it has been cancelled meanwhile
RunCallback(w, h) ==
  IF \E j \in 1..Len(w.raf) : w.raf[j] = h
    THEN animationLoop(cancelAnimationFrame(w, h))
    ELSE w
RECURSIVE RunFrame(_, _, _)
RunFrame(w, handles, i) ==
  IF i > Len(handles) THEN w
  ELSE RunFrame(Once(w, LAMBDA v : RunCallback(v, handles[i])), handles, i + 1)

(***************************************************************************)
(* State.                                                                  *)
(***************************************************************************)
VARIABLES
  isInitialized,   \* HairSalonGame.isInitialized
  hairStrands,     \* hairStrands of the HairSystem the ToolManager holds
  gameHairSystem,  \* game.hairSystem: 1 the HairSystem the ToolManager holds, 2 a later one
  resetStrands,    \* hairStrands of game.hairSystem when it is a later one
  fallingHair,     \* PhysicsEngine.fallingHair
  isAnimating,     \* PhysicsEngine.isAnimating
  animationId,     \* PhysicsEngine.animationId, Null or a handle
  raf,             \* pending animation frame callbacks
  currentTool,     \* ToolManager.currentTool
  isMouseDown,     \* ToolManager.isMouseDown
  lastMouseX,      \* ToolManager.lastMouseX
  lastMouseY,      \* ToolManager.lastMouseY
  avatar,          \* GameConfig.avatar
  currentCharacter,\* CharacterManager.currentCharacter
  timers,          \* pending timers of the host (setTimeout, setInterval), oldest first
  canvas,          \* what the canvas shows of the zone guide and of the red crosses
  buttonsDisabled, \* UIController: the tool buttons are disabled (loading state)
  created,         \* bookkeeping: strands created so far (the last identity given)
  added,           \* bookkeeping: strands added with the add tool
  cleaned,         \* bookkeeping: particles removed below the canvas
  combs,           \* bookkeeping: combHairAtPosition calls
  events,          \* bookkeeping: pointer, tool-button and reset events
  resets,          \* bookkeeping: reset calls
  feedbacks,       \* bookkeeping: showInvalidAreaFeedback calls
  last             \* bookkeeping: the last handler, its arguments and results, the
                   \* particles its updateFallingHair calls removed, and the
                   \* result and the draw calls of the queries of the store

vars == << isInitialized, hairStrands, gameHairSystem, resetStrands, fallingHair,
           isAnimating, animationId, raf, currentTool, isMouseDown, lastMouseX,
           lastMouseY, avatar, currentCharacter, timers, canvas, buttonsDisabled,
           created, added, cleaned, combs, events, resets, feedbacks, last >>

\* the state as one record, for the operations to act on
World ==
  [isInitialized |-> isInitialized, hairStrands |-> hairStrands,
   gameHairSystem |-> gameHairSystem, resetStrands |-> resetStrands,
   fallingHair |-> fallingHair, isAnimating |-> isAnimating,
   animationId |-> animationId, raf |-> raf, currentTool |-> currentTool,
   isMouseDown |-> isMouseDown, lastMouseX |-> lastMouseX,
   lastMouseY |-> lastMouseY, avatar |-> avatar,
   currentCharacter |-> currentCharacter, timers |-> timers, canvas |-> canvas,
   buttonsDisabled |-> buttonsDisabled, created |-> created,
   added |-> added, cleaned |-> cleaned, combs |-> combs, events |-> events,
   resets |-> resets, feedbacks |-> feedbacks,
   last |-> last]

\* the next state is the record w
Commit(w) ==
  /\ isInitialized' = w.isInitialized
  /\ hairStrands' = w.hairStrands
  /\ gameHairSystem' = w.gameHairSystem
  /\ resetStrands' = w.resetStrands
  /\ fallingHair' = w.fallingHair
  /\ isAnimating' = w.isAnimating
  /\ animationId' = w.animationId
  /\ raf' = w.raf
  /\ currentTool' = w.currentTool
  /\ isMouseDown' = w.isMouseDown
  /\ lastMouseX' = w.lastMouseX
  /\ lastMouseY' = w.lastMouseY
  /\ avatar' = w.avatar
  /\ currentCharacter' = w.currentCharacter
  /\ timers' = w.timers
  /\ canvas' = w.canvas
  /\ buttonsDisabled' = w.buttonsDisabled
  /\ created' = w.created
  /\ added' = w.added
  /\ cleaned' = w.cleaned
  /\ combs' = w.combs
  /\ events' = w.events
  /\ resets' = w.resets
  /\ feedbacks' = w.feedbacks
  /\ last' = w.last

\* the record of a handler that has not run a tool operation
NoOp(op) ==
  [op |-> op, act |-> "none", color |-> "", dx |-> 0, dy |-> 0,
   ok |-> FALSE, found |-> FALSE, removed |-> <<>>, swept |-> <<>>,
   query |-> <<>>, matched |-> <<>>, drawn |-> <<>>, particles |-> <<>>]

(***************************************************************************)
(* ToolManager.                                                            *)
(***************************************************************************)
\* a paintHair that recolours the whole store
paintHairEverywhere(w, x, y, color) ==
  [w EXCEPT !.hairStrands = [i \in 1..Len(@) |-> [@[i] EXCEPT !.color = color]],
            !.last = [@ EXCEPT !.act = "paint", !.color = color,
                               !.found = Len(w.hairStrands) > 0]]
\* a paintHair that redraws the store whenever a strand was found
paintHairAlwaysRedraw(w, x, y, color) ==
  LET r == paintHairAtPosition(w.hairStrands, x, y, color)
      p == [w EXCEPT !.hairStrands = r.strands,
                     !.last = [@ EXCEPT !.act = "paint", !.color = color,
                                        !.found = r.found]]
  IN  IF r.found
        THEN [clearCanvas(p) EXCEPT !.last.drawn = redrawAllHair(r.strands)]
        ELSE p
\* ToolManager.paintHair with the redraw that paintHairAtPosition makes when it
\* found a strand and was told that no animation runs
paintHair(w, x, y, color) ==
  LET hasAnimation == w.isAnimating
      r == paintHairAtPosition(w.hairStrands, x, y, color)
      p == [w EXCEPT !.hairStrands = r.strands,
                     !.last = [@ EXCEPT !.act = "paint", !.color = color,
                                        !.found = r.found]]
  IN  IF r.found /\ ~hasAnimation
        THEN [clearCanvas(p) EXCEPT !.last.drawn = redrawAllHair(r.strands)]
        ELSE p

\* distance <= radius * 1.5 for the distance of (x1, y1) and (x2, y2)
WithinRedrawArea(x1, y1, x2, y2, radius) ==
  4 * ((x2 - x1) * (x2 - x1) + (y2 - y1) * (y2 - y1)) <= 9 * radius * radius

\* the drawHairStrand calls of clearAndRedrawArea, in store order: waveConfig
\* and layerDepth are not passed and take their defaults, null and 1.0
LocalDrawCalls(hs, x, y, radius) ==
  LET near == SelectSeq(hs, LAMBDA strand :
                WithinRedrawArea(strand.baseX, strand.baseY, x, y, radius))
  IN  [i \in 1..Len(near) |->
         [call |-> "drawHairStrand", sid |-> near[i].sid,
          waveConfig |-> "null", layerDepth |-> 1000]]

\* ToolManager.clearAndRedrawArea
clearAndRedrawArea(w, x, y, radius) ==
  [clearRectAround(w, x, y, radius) EXCEPT
     !.last.drawn = @ \o << [call |-> "clearRectAround", sid |-> 0, layerDepth |-> 0] >>
                      \o LocalDrawCalls(w.hairStrands, x, y, radius)]

\* ToolManager.drawHairZoneGuide
drawHairZoneGuide(w) == [w EXCEPT !.canvas.guide = TRUE]

\* ToolManager.clearHairZoneGuide: hairSystem.redrawAllHair(), which clears the
\* canvas and draws the store; the record keeps the tool current at the call
clearHairZoneGuide(w) ==
  LET c == clearCanvas(w)
  IN  [c EXCEPT !.last = [@ EXCEPT !.drawn = @ \o redrawAllHair(w.hairStrands),
                                   !.query = @ \o << w.currentTool >>]]

\* ToolManager.showBlinkingHairZone: an interval timer with blinkCount 0
showBlinkingHairZone(w) ==
  [w EXCEPT !.timers = Append(@, NewTimer("blink"))]

\* ToolManager.showInvalidAreaFeedback: the blinking zone outline is started,
\* the red cross is drawn and a timer is set to remove it
showInvalidAreaFeedback(w, x, y) ==
  LET b == showBlinkingHairZone(w)
  IN  [b EXCEPT !.canvas.cross = @ \cup {<< x, y >>},
                !.timers = Append(@, [NewTimer("cross") EXCEPT !.x = x, !.y = y]),
                !.feedbacks = @ + 1]

\* ToolManager.addHair; addHairAtPosition is called without a character type
addHair(w, x, y, color, pat) ==
  LET r == addHairAtPosition(w.avatar, w.hairStrands, x, y, color, "male", pat, w.created)
      n == Len(r.strands) - Len(w.hairStrands)
      a == [w EXCEPT !.hairStrands = r.strands,
                     !.created = @ + n,
                     !.added = @ + n,
                     !.last = [@ EXCEPT !.act = "addHair", !.color = color,
                                        !.ok = r.ok]]
  IN  IF r.ok THEN a ELSE showInvalidAreaFeedback(a, x, y)

\* a combHair without the static branch
combHairAlways(w, x, y, dx, dy) ==
  LET c == [w EXCEPT !.hairStrands = combHairAtPosition(@, x, y, dx, dy),
                     !.combs = @ + 1,
                     !.last = [@ EXCEPT !.act = "comb", !.dx = dx, !.dy = dy]]
  IN  IF ~c.isAnimating THEN clearAndRedrawArea(c, x, y, CombRadius) ELSE c
\* ToolManager.combHair
combHair(w, x, y, dx, dy) ==
  IF Abs(dx) > 1 \/ Abs(dy) > 1
    THEN LET c == [w EXCEPT !.hairStrands = combHairAtPosition(@, x, y, dx, dy),
                            !.combs = @ + 1,
                            !.last = [@ EXCEPT !.act = "comb", !.dx = dx, !.dy = dy]]
         IN  IF ~c.isAnimating THEN clearAndRedrawArea(c, x, y, CombRadius) ELSE c
    ELSE [w EXCEPT !.last = [@ EXCEPT !.act = "combStatic", !.dx = dx, !.dy = dy]]

\* ToolManager.shaveHair; pat[i] are the random samples of the i-th particle
shaveHair(w, x, y, pat) ==
  LET r == shaveHairAtPosition(w.hairStrands, x, y)
      removedHair == r.removed
      s == [w EXCEPT !.hairStrands = r.strands,
                     !.last = [@ EXCEPT !.act = "shave", !.removed = removedHair]]
      f == IF Len(removedHair) > 0
             THEN initializeAnimation(createMultipleFallingHair(s, removedHair, pat, 1))
             ELSE s
  IN  IF ~f.isAnimating THEN clearAndRedrawArea(f, x, y, ShaveClearSize) ELSE f

\* ToolManager.executeToolAction
executeToolAction(w, x, y, color, addPat, partPat) ==
  CASE w.currentTool = "paint" -> paintHair(w, x, y, color)
    [] w.currentTool = "addHair" -> addHair(w, x, y, color, addPat)
    [] w.currentTool = "comb" -> combHair(w, x, y, 0, 0)
    [] w.currentTool = "shave" -> shaveHair(w, x, y, partPat)
    [] OTHER -> w

\* ToolManager.handleMouseDown
handleMouseDown(w, pos, color, addPat, partPat) ==
  LET d == [w EXCEPT !.isMouseDown = TRUE, !.last = NoOp("mouseDown")]
      e == executeToolAction(d, pos.x, pos.y, color, addPat, partPat)
  IN  [e EXCEPT !.lastMouseX = pos.x, !.lastMouseY = pos.y]

\* a handleMouseMove that acts whether the button is down or not
handleMouseMoveUngated(w, pos, color, addPat, partPat) ==
  LET dx == pos.x - w.lastMouseX
      dy == pos.y - w.lastMouseY
      m == [w EXCEPT !.last = [NoOp("mouseMove") EXCEPT !.query = << dx, dy >>]]
      e == IF w.currentTool = "comb"
             THEN IF Abs(dx) > 1 \/ Abs(dy) > 1
                    THEN combHair(m, pos.x, pos.y, dx, dy)
                    ELSE executeToolAction(m, pos.x, pos.y, color, addPat, partPat)
             ELSE executeToolAction(m, pos.x, pos.y, color, addPat, partPat)
  IN  [e EXCEPT !.lastMouseX = pos.x, !.lastMouseY = pos.y]
\* ToolManager.handleMouseMove; the record keeps the delta of the move
handleMouseMove(w, pos, color, addPat, partPat) ==
  LET dx == pos.x - w.lastMouseX
      dy == pos.y - w.lastMouseY
      m == [w EXCEPT !.last = [NoOp("mouseMove") EXCEPT !.query = << dx, dy >>]]
      e == IF ~w.isMouseDown THEN m
           ELSE IF w.currentTool = "comb"
                  THEN IF Abs(dx) > 1 \/ Abs(dy) > 1
                         THEN combHair(m, pos.x, pos.y, dx, dy)
                         ELSE executeToolAction(m, pos.x, pos.y, color, addPat, partPat)
                  ELSE executeToolAction(m, pos.x, pos.y, color, addPat, partPat)
  IN  [e EXCEPT !.lastMouseX = pos.x, !.lastMouseY = pos.y]

\* ToolManager.handleMouseUp
handleMouseUp(w) == [w EXCEPT !.isMouseDown = FALSE, !.last = NoOp("mouseUp")]

\* ToolManager.handleMouseLeave
handleMouseLeave(w) == [w EXCEPT !.isMouseDown = FALSE, !.last = NoOp("mouseLeave")]

\* a setTool that changes the tool first and clears the guide afterwards
setToolThenClear(w, toolName) ==
  LET t == [w EXCEPT !.currentTool = toolName]
  IN  IF w.currentTool = "addHair" THEN clearHairZoneGuide(t) ELSE t
\* ToolManager.setTool
setTool(w, toolName) ==
  LET g == IF w.currentTool = "addHair" THEN clearHairZoneGuide(w) ELSE w
  IN  [g EXCEPT !.currentTool = toolName]

(***************************************************************************)
(* HairSalonGame.                                                          *)
(***************************************************************************)
\* HairSalonGame.initialize, with canvas and context present
initialize(w, pat) ==
  LET t == setTool(w, "paint")
  IN  [t EXCEPT !.hairStrands = generateHair("male", pat, w.created),
                !.created = @ + GenCount,
                !.isInitialized = TRUE,
                !.last = NoOp("initialize")]

\* HairSalonGame.reset: the game takes a new HairSystem, the ToolManager keeps its own
reset(w, pat) ==
  IF ~w.isInitialized THEN w
  ELSE LET c == clearCanvas(clearAllFallingHair(w))
           g == [c EXCEPT !.gameHairSystem = 2,
                          !.resetStrands = generateHair("male", pat, w.created),
                          !.created = @ + GenCount,
                          !.resets = @ + 1,
                          !.last = [NoOp("reset") EXCEPT !.query = << Len(w.fallingHair) >>]]
       IN  setTool(g, "paint")

(***************************************************************************)
(* The state machine.                                                      *)
(***************************************************************************)
\* the state after construction, before HairSalonGame.initialize
Fresh ==
  [isInitialized |-> FALSE, hairStrands |-> <<>>, gameHairSystem |-> 1,
   resetStrands |-> <<>>, fallingHair |-> <<>>, isAnimating |-> FALSE,
   animationId |-> Null, raf |-> <<>>, currentTool |-> "paint",
   isMouseDown |-> FALSE, lastMouseX |-> 0, lastMouseY |-> 0,
   avatar |-> [centerX |-> 305, centerY |-> 220, hairRadius |-> 90],
   currentCharacter |-> "male", timers |-> <<>>, canvas |-> BlankCanvas,
   buttonsDisabled |-> FALSE,
   created |-> 0, added |-> 0, cleaned |-> 0, combs |-> 0, events |-> 0,
   resets |-> 0, feedbacks |-> 0, last |-> NoOp("new")]

\* the state is the record w
Start(w) ==
  /\ isInitialized = w.isInitialized
  /\ hairStrands = w.hairStrands
  /\ gameHairSystem = w.gameHairSystem
  /\ resetStrands = w.resetStrands
  /\ fallingHair = w.fallingHair
  /\ isAnimating = w.isAnimating
  /\ animationId = w.animationId
  /\ raf = w.raf
  /\ currentTool = w.currentTool
  /\ isMouseDown = w.isMouseDown
  /\ lastMouseX = w.lastMouseX
  /\ lastMouseY = w.lastMouseY
  /\ avatar = w.avatar
  /\ currentCharacter = w.currentCharacter
  /\ timers = w.timers
  /\ canvas = w.canvas
  /\ buttonsDisabled = w.buttonsDisabled
  /\ created = w.created
  /\ added = w.added
  /\ cleaned = w.cleaned
  /\ combs = w.combs
  /\ events = w.events
  /\ resets = w.resets
  /\ feedbacks = w.feedbacks
  /\ last = w.last

Init == Start(Fresh)

\* the run stays within the bounds
WithinBounds(w) ==
  /\ w.added <= MaxAdded
  /\ w.combs <= MaxCombs
  /\ w.resets <= MaxResets
  /\ w.events <= MaxEvents

\* a user event: one more event of the run
Event(w) == [w EXCEPT !.events = @ + 1]

\* the inputs a pointer event reads besides the position: the value of the
\* colour picker and the random draws of the strands and particles it creates
NoInput ==
  [color |-> DefaultColor,
   addPat |-> CHOOSE a \in AddPatterns : TRUE,
   partPat |-> CHOOSE q \in ParticlePatterns : TRUE]
Inputs(tool) ==
  CASE tool = "paint" -> {[NoInput EXCEPT !.color = c] : c \in Colors}
    [] tool = "addHair" -> {[NoInput EXCEPT !.color = c, !.addPat = a] :
                              c \in Colors, a \in AddPatterns}
    [] tool = "shave" -> {[NoInput EXCEPT !.partPat = q] : q \in ParticlePatterns}
    [] OTHER -> {NoInput}

Initialize ==
  /\ ~isInitialized
  /\ \E pat \in GenPatterns :
       \E w \in {initialize(World, pat)} : Commit(w)

MouseDown ==
  /\ isInitialized
  /\ events < MaxEvents
  /\ \E pos \in Points, in \in Inputs(currentTool) :
       \E w \in {Event(handleMouseDown(World, pos, in.color, in.addPat, in.partPat))} :
         WithinBounds(w) /\ Commit(w)

MouseMove ==
  /\ isInitialized
  /\ events < MaxEvents
  /\ \E pos \in Points, in \in Inputs(currentTool) :
       \E w \in {Event(handleMouseMove(World, pos, in.color, in.addPat, in.partPat))} :
         WithinBounds(w) /\ Commit(w)

MouseUp ==
  /\ isInitialized
  /\ events < MaxEvents
  /\ \E w \in {Event(handleMouseUp(World))} : WithinBounds(w) /\ Commit(w)

MouseLeave ==
  /\ isInitialized
  /\ events < MaxEvents
  /\ \E w \in {Event(handleMouseLeave(World))} : WithinBounds(w) /\ Commit(w)

SetTool ==
  /\ isInitialized
  /\ events < MaxEvents
  /\ \E toolName \in Tools :
       \E w \in {Event(setTool([World EXCEPT !.last = [NoOp("setTool") EXCEPT
                                                       !.query = << toolName >>]],
                                toolName))} :
         WithinBounds(w) /\ Commit(w)

\* a display frame with callbacks pending
Frame ==
  /\ Len(raf) > 0
  /\ \E w \in {RunFrame([World EXCEPT !.last = NoOp("frame")], raf, 1)} : Commit(w)

Reset ==
  /\ isInitialized
  /\ events < MaxEvents
  /\ resets < MaxResets
  /\ \E pat \in GenPatterns :
       \E w \in {Event(reset(World, pat))} : WithinBounds(w) /\ Commit(w)

Next ==
  \/ Initialize
  \/ MouseDown
  \/ MouseMove
  \/ MouseUp
  \/ MouseLeave
  \/ SetTool
  \/ Frame
  \/ Reset

Spec == Init /\ [][Next]_vars

(***************************************************************************)
(* Properties.  Distances are compared through their squares, and the hair *)
(* zone is restated from its geometry, so that a property does not rest on *)
(* the operators it is about.                                              *)
(***************************************************************************)
\* the square of the Euclidean distance between two points
Dist2(x1, y1, x2, y2) == (x2 - x1) * (x2 - x1) + (y2 - y1) * (y2 - y1)

\* the point (x, y) is in the upper half disc of the active avatar
InUpperHalfDisc(av, x, y) ==
  /\ Dist2(x, y, av.centerX, av.centerY) <= av.hairRadius * av.hairRadius
  /\ y <= av.centerY

\* the pointer event just handled ran the shave tool / the add-hair tool
Shaved == last.act = "shave"
AddTried == last.act = "addHair"

\* C1  Shave conservation: a shave at P lowers the store count by exactly the
\* length of the returned sequence, and afterwards no strand whose base is
\* at distance <= ShaveRadius of P is in the store.
ShaveConservation ==
  [][Shaved' =>
       /\ Len(hairStrands) - Len(hairStrands') = Len(last'.removed)
       /\ \A i \in 1..Len(hairStrands') :
            Dist2(hairStrands'[i].baseX, hairStrands'[i].baseY,
                  lastMouseX', lastMouseY') > ShaveRadius * ShaveRadius]_vars

\* a shave that removed a strand exactly on the circle and left another one
ShaveConservationWitness ==
  /\ Shaved
  /\ Len(hairStrands) > 0
  /\ \E i \in 1..Len(last.removed) :
       Dist2(last.removed[i].baseX, last.removed[i].baseY, lastMouseX, lastMouseY)
         = ShaveRadius * ShaveRadius

\* C2  Add-hair rejection: at a point outside the hair zone the add-hair tool
\* is refused (false), the store and the particle list stay exactly as they
\* were, and so does everything else but the rejection feedback.
AddHairRejection ==
  [][(AddTried' /\ ~InUpperHalfDisc(avatar, lastMouseX', lastMouseY')) =>
       /\ ~last'.ok
       /\ hairStrands' = hairStrands
       /\ fallingHair' = fallingHair
       /\ feedbacks' = feedbacks + 1
       /\ UNCHANGED << gameHairSystem, resetStrands, isAnimating, animationId,
                       raf, currentTool, avatar, created, added, cleaned >>]_vars

\* a refused add-hair click on a store that holds strands
AddHairRejectionWitness ==
  /\ AddTried
  /\ ~last.ok
  /\ ~InUpperHalfDisc(avatar, lastMouseX, lastMouseY)
  /\ Len(hairStrands) > 0
  /\ feedbacks > 0

\* C3  Add-hair success: at a point inside the hair zone one add-hair action
\* raises the store count by exactly StrandsPerClick, the new strands come
\* after the existing ones, and every existing strand is unchanged.
AddHairSuccess ==
  [][(AddTried' /\ InUpperHalfDisc(avatar, lastMouseX', lastMouseY')) =>
       /\ last'.ok
       /\ Len(hairStrands') = Len(hairStrands) + StrandsPerClick
       /\ SubSeq(hairStrands', 1, Len(hairStrands)) = hairStrands
       /\ \A i \in (Len(hairStrands) + 1)..Len(hairStrands') :
            \A j \in 1..Len(hairStrands) : hairStrands'[i].sid # hairStrands[j].sid]_vars

\* an accepted add-hair click on a store that held strands already
AddHairSuccessWitness ==
  /\ AddTried
  /\ last.ok
  /\ InUpperHalfDisc(avatar, lastMouseX, lastMouseY)
  /\ Len(hairStrands) > StrandsPerClick
  /\ added = StrandsPerClick

\* n / d rounded up (n >= 0, d > 0)
CeilDiv(n, d) == (n + d - 1) \div d

\* the particles the handler just run removed below the canvas
Swept == last.swept

\* C5 as stated  Particle cleanup: a particle created at height y0 with
\* fallSpeed = 4 is removed after exactly
\* ceil((CanvasHeight + CleanupDistance - y0) / 4) ticks of updateFallingHair.
CleanupAfterCeilTicks ==
  \A i \in 1..Len(Swept) :
    Swept[i].fallSpeed = 4 =>
      Swept[i].ticks = CeilDiv(CanvasHeight + CleanupDistance - Swept[i].y0, 4)

\* C5  Particle cleanup: a particle created at height y0 with fall speed v is
\* removed at the first tick that takes it strictly below
\* CanvasHeight + CleanupDistance, that is after exactly
\* floor((CanvasHeight + CleanupDistance - y0) / v) + 1 ticks of
\* updateFallingHair, and each removal shortens the particle list by one.
CleanupAfterFloorTicks ==
  [][/\ \A i \in 1..Len(Swept') :
          /\ Swept'[i].ticks =
               ((CanvasHeight + CleanupDistance - Swept'[i].y0) \div Swept'[i].fallSpeed) + 1
          /\ Swept'[i].y = Swept'[i].y0 + Swept'[i].ticks * Swept'[i].fallSpeed
     /\ cleaned' = cleaned + Len(Swept')
     /\ last'.op # "reset" =>
          Len(fallingHair') = Len(fallingHair) + Len(last'.removed) - Len(Swept')]_vars

\* a particle of fall speed 4 whose way to the cleanup line is a multiple of 4
\* has been removed by a tick that left another particle falling
CleanupAfterFloorTicksWitness ==
  /\ last.op = "frame"
  /\ Len(fallingHair) > 0
  /\ \E i \in 1..Len(Swept) :
       /\ Swept[i].fallSpeed = 4
       /\ (CanvasHeight + CleanupDistance - Swept[i].y0) % 4 = 0

\* C6 as stated  Stepper state machine: the stepper goes running when the
\* first particle is created, and idle in the very tick whose step leaves the
\* particle list empty: after that tick isAnimationRunning() is false and no
\* further tick has been requested.  The tick is taken with one callback
\* pending, so that it is one run of animationLoop.
StepperIdleWhenEmptied ==
  [][/\ (Len(fallingHair) = 0 /\ Len(fallingHair') > 0) => isAnimating'
     /\ (/\ last'.op = "frame"
         /\ Len(raf) = 1
         /\ Len(fallingHair) > 0
         /\ Len(fallingHair') = 0) =>
          (~isAnimating' /\ Len(raf') = 0)]_vars

\* C7 as stated  No leaked tick: after clearAllFallingHair (game reset), and
\* after the particle list has emptied and the stepper went idle, no
\* animation-frame callback of the stepper remains scheduled.
NoLeakedTick ==
  (last.op = "reset" \/ (Len(fallingHair) = 0 /\ ~isAnimating)) => Len(raf) = 0

\* C8 as stated  Shave hand-off: after a shave tool action that removes
\* k >= 1 strands the particle list has grown by exactly k and the stepper is
\* running; when k = 0 the particle list and the stepper state are unchanged.
ShaveHandOff ==
  [][Shaved' =>
       IF Len(last'.removed) >= 1
         THEN Len(fallingHair') = Len(fallingHair) + Len(last'.removed) /\ isAnimating'
         ELSE fallingHair' = fallingHair /\ isAnimating' = isAnimating]_vars

\* the identities of the strands of a sequence of strands or particles
Sids(seq) == {seq[i].sid : i \in 1..Len(seq)}

\* C9  Ownership: a strand is never in the store and in the particle list at
\* the same time, each shaved strand is exactly one particle, and as long as
\* there has been no reset, strands in store + active particles + particles
\* cleaned up = strands generated + strands added.
Ownership ==
  resets = 0 =>
    /\ Sids(hairStrands) \cap Sids(fallingHair) = {}
    /\ Cardinality(Sids(hairStrands)) = Len(hairStrands)
    /\ Cardinality(Sids(fallingHair)) = Len(fallingHair)
    /\ Len(hairStrands) + Len(fallingHair) + cleaned
         = (IF isInitialized THEN GenCount ELSE 0) + added

\* strands were added, some strands shaved, one particle has been cleaned up
\* and another still falls, and the store is not empty
OwnershipWitness ==
  /\ resets = 0
  /\ added > 0
  /\ cleaned > 0
  /\ Len(fallingHair) > 0
  /\ Len(hairStrands) > 0

(***************************************************************************)
(* The hair zone on its own: Utils.isInHairZone queried at the points of a *)
(* grid around the zone of either character.                               *)
(***************************************************************************)
ZoneXs == {214, 215, 251, 305, 359, 395, 396}
ZoneYs == {129, 130, 148, 166, 200, 220, 221, 310}

\* an avatar update that keeps the head of the male character
AvatarOfMale(c) ==
  [centerX |-> Characters["male"].hairCenter.x, centerY |-> Characters["male"].hairCenter.y,
   hairRadius |-> Characters["male"].hairRadius]
\* GameConfig.avatar once CharacterManager.setCharacter has selected c
AvatarOf(c) ==
  [centerX |-> Characters[c].hairCenter.x, centerY |-> Characters[c].hairCenter.y,
   hairRadius |-> Characters[c].hairRadius]

\* the state after Utils.isInHairZone(x, y) has been called
zoneQuery(w, x, y) ==
  [w EXCEPT !.lastMouseX = x, !.lastMouseY = y,
            !.last = [NoOp("isInHairZone") EXCEPT !.ok = isInHairZone(w.avatar, x, y)]]

InitZone ==
  \E c \in {"male", "female"}, x \in ZoneXs, y \in ZoneYs :
    Start(zoneQuery([Fresh EXCEPT !.avatar = AvatarOf(c)], x, y))

ZoneQuery ==
  \E x \in ZoneXs, y \in ZoneYs :
    \E w \in {zoneQuery(World, x, y)} : Commit(w)

NextZone == ZoneQuery

SpecZone == InitZone /\ [][NextZone]_vars

\* the query just made was at (x, y) with the male character's zone
MaleZoneAt(x, y) ==
  /\ avatar = AvatarOf("male")
  /\ lastMouseX = x
  /\ lastMouseY = y

\* C4  Zone containment: isInHairZone(x, y) is true exactly when the distance
\* from (x, y) to the head centre is <= hairRadius and y <= centerY, both
\* bounds inclusive; with centre (305, 220) and radius 90, (305, 200),
\* (305, 130) and (215, 220) are inside and (305, 310) is outside.
ZoneContainment ==
  /\ last.ok <=> InUpperHalfDisc(avatar, lastMouseX, lastMouseY)
  /\ MaleZoneAt(305, 200) => last.ok
  /\ MaleZoneAt(305, 310) => ~last.ok
  /\ MaleZoneAt(305, 130) => last.ok
  /\ MaleZoneAt(215, 220) => last.ok

\* the query at (215, 220), on both inclusive bounds, answered true
ZoneContainmentWitness ==
  /\ MaleZoneAt(215, 220)
  /\ last.op = "isInHairZone"
  /\ last.ok

(***************************************************************************)
(* The comb on its own: one strand under the comb, combed again and again  *)
(* by the same pointer movement (last.dx, last.dy).                        *)
(***************************************************************************)
\* angles of the strand at the start, and pointer movements
CombAngles == {-3000, -1571, -7, 2, 1570, 6000}
CombMoves == { [dx |-> 10, dy |-> 0], [dx |-> 0, dy |-> 10],
               [dx |-> -10, dy |-> -10], [dx |-> 3, dy |-> -1] }

\* the state after combHair(x, y, dx, dy) at the pointer position
combAgain(w) ==
  combHair([w EXCEPT !.last = NoOp("mouseMove")],
           w.lastMouseX, w.lastMouseY, w.last.dx, w.last.dy)

InitComb ==
  \E a \in CombAngles, m \in CombMoves :
    Start([Fresh EXCEPT
             !.isInitialized = TRUE,
             !.hairStrands = addHairStrand(<<>>, 305, 205, a, 250, DefaultColor,
                                           "male", 1000, 1),
             !.created = 1,
             !.currentTool = "comb",
             !.isMouseDown = TRUE,
             !.lastMouseX = 305,
             !.lastMouseY = 205,
             !.last = [NoOp("mouseMove") EXCEPT !.dx = m.dx, !.dy = m.dy]])

CombAgain ==
  /\ combs < MaxCombCalls
  /\ \E w \in {combAgain(World)} : Commit(w)

NextComb == CombAgain

SpecComb == InitComb /\ [][NextComb]_vars

\* the distance of the strand's angle from the angle of the pointer movement
AngleGap == Abs(hairStrands[1].angle - Atan2(last.dy, last.dx))

StorePoints == { [x |-> 305, y |-> 205], [x |-> 314, y |-> 193] }

\* strands at distance 0, 15, more than 15, 30, more than 30, 50 and more
\* than 50 of the pointer position (305, 205), of different layers
StoreStrands ==
  << [baseX |-> 305, baseY |-> 205, angle |-> -1571, length |-> 250,
      color |-> DefaultColor, waveConfig |-> "male", layerDepth |-> 1000, sid |-> 1],
     [baseX |-> 314, baseY |-> 193, angle |-> 100, length |-> 200,
      color |-> DefaultColor, waveConfig |-> "male", layerDepth |-> 400, sid |-> 2],
     [baseX |-> 314, baseY |-> 192, angle |-> -3042, length |-> 290,
      color |-> "#FF0000", waveConfig |-> "male", layerDepth |-> 700, sid |-> 3],
     [baseX |-> 323, baseY |-> 181, angle |-> 2000, length |-> 250,
      color |-> DefaultColor, waveConfig |-> "male", layerDepth |-> 400, sid |-> 4],
     [baseX |-> 323, baseY |-> 180, angle |-> -200, length |-> 300,
      color |-> "#FF0000", waveConfig |-> "male", layerDepth |-> 1000, sid |-> 5],
     [baseX |-> 335, baseY |-> 165, angle |-> 6000, length |-> 250,
      color |-> DefaultColor, waveConfig |-> "male", layerDepth |-> 700, sid |-> 6],
     [baseX |-> 335, baseY |-> 164, angle |-> -1000, length |-> 200,
      color |-> DefaultColor, waveConfig |-> "male", layerDepth |-> 320, sid |-> 7] >>

\* the stores at the start: four of the strands, in either order
StoreContents ==
  LET n == Len(StoreStrands)
      T == { t \in (1..n) \X (1..n) \X (1..n) \X (1..n) :
               \/ t[1] < t[2] /\ t[2] < t[3] /\ t[3] < t[4]
               \/ t[1] > t[2] /\ t[2] > t[3] /\ t[3] > t[4] }
  IN  { << StoreStrands[t[1]], StoreStrands[t[2]], StoreStrands[t[3]],
           StoreStrands[t[4]] >> : t \in T }

\* the radii findHairStrandsInRadius is asked for: the tool radii
StoreRadii == {ShaveRadius, PaintRadius, CombRadius}

\* positions of the pressed pointer at the start
StoreLastPoints == { [x |-> 305, y |-> 205], [x |-> 295, y |-> 205] }

\* the state after Utils.findHairStrandsInRadius(hairStrands, x, y, radius)
findQuery(w, x, y, radius) ==
  [w EXCEPT !.last = [NoOp("findHairStrandsInRadius") EXCEPT
                        !.query = << x, y, radius >>,
                        !.matched = findHairStrandsInRadius(w.hairStrands, x, y, radius)]]

\* the state after HairSystem.redrawAllHair()
redrawQuery(w) ==
  [w EXCEPT !.last = [NoOp("redrawAllHair") EXCEPT !.drawn = redrawAllHair(w.hairStrands)]]

InitStore ==
  \E hs \in StoreContents, tool \in Tools, p \in StoreLastPoints :
    Start([Fresh EXCEPT !.isInitialized = TRUE,
                        !.hairStrands = hs,
                        !.created = Len(StoreStrands),
                        !.currentTool = tool,
                        !.isMouseDown = TRUE,
                        !.lastMouseX = p.x,
                        !.lastMouseY = p.y,
                        !.last = NoOp("mouseMove")])

StoreMouseDown ==
  /\ events < MaxStoreOps
  /\ \E pos \in StorePoints, in \in Inputs(currentTool) :
       \E w \in {Event(handleMouseDown(World, pos, in.color, in.addPat, in.partPat))} :
         w.added <= MaxAdded /\ Commit(w)

StoreMouseMove ==
  /\ events < MaxStoreOps
  /\ \E pos \in StorePoints, in \in Inputs(currentTool) :
       \E w \in {Event(handleMouseMove(World, pos, in.color, in.addPat, in.partPat))} :
         w.added <= MaxAdded /\ Commit(w)

StoreFind ==
  /\ events < MaxStoreOps
  /\ \E pos \in StorePoints, radius \in StoreRadii :
       \E w \in {Event(findQuery(World, pos.x, pos.y, radius))} : Commit(w)

StoreRedraw ==
  /\ events < MaxStoreOps
  /\ \E w \in {Event(redrawQuery(World))} : Commit(w)

NextStore ==
  \/ StoreMouseDown
  \/ StoreMouseMove
  \/ StoreFind
  \/ StoreRedraw

SpecStore == InitStore /\ [][NextStore]_vars

\* the i-th strand of the store is within radius of the pointer position of
\* the event just handled (primed: of the event of this step)
Within(i, radius) ==
  Dist2(hairStrands[i].baseX, hairStrands[i].baseY, lastMouseX, lastMouseY)
    <= radius * radius
WithinNext(i, radius) ==
  Dist2(hairStrands[i].baseX, hairStrands[i].baseY, lastMouseX', lastMouseY')
    <= radius * radius

\* the sequence s in reverse
Reverse(s) == [i \in 1..Len(s) |-> s[Len(s) + 1 - i]]

\* C11  Nudge: combHairAtPosition(x, y, dx, dy) sets
\* angle' = angle + (atan2(dy, dx) - angle) * influence for every strand
\* within CombRadius of (x, y) and changes nothing else: unmatched strands,
\* the other fields of matched strands, the number and order of strands.
NudgeFrame ==
  [][last'.act = "comb" =>
       /\ Len(hairStrands') = Len(hairStrands)
       /\ \A i \in 1..Len(hairStrands) :
            hairStrands'[i] =
              IF WithinNext(i, CombRadius)
                THEN [hairStrands[i] EXCEPT
                        !.angle = @ + RoundDiv((Atan2(last'.dy, last'.dx) - @) * InfluenceNum,
                                               InfluenceDen)]
                ELSE hairStrands[i]]_vars

\* a comb that turned a strand and passed over another out of its reach
NudgeFrameWitness ==
  /\ last.act = "comb"
  /\ \E i \in 1..Len(hairStrands) : ~Within(i, CombRadius)
  /\ \E i \in 1..Len(hairStrands) :
       /\ Within(i, CombRadius)
       /\ hairStrands[i].angle # StoreStrands[hairStrands[i].sid].angle

\* C12  Paint idempotence: painting a second time at the same point with the
\* same colour leaves the whole store as the first painting left it.
PaintIdempotence ==
  [][(/\ last.act = "paint"
      /\ last'.act = "paint"
      /\ last'.color = last.color
      /\ lastMouseX' = lastMouseX
      /\ lastMouseY' = lastMouseY) =>
       (hairStrands' = hairStrands /\ last'.found = last.found)]_vars

\* a second operation of the run has painted strands that started in another
\* colour, and the same painting again changes nothing
PaintIdempotenceWitness ==
  /\ events = 2
  /\ last.act = "paint"
  /\ last.found
  /\ \E i \in 1..Len(hairStrands) :
       /\ Within(i, PaintRadius)
       /\ StoreStrands[hairStrands[i].sid].color # last.color
  /\ paintHairAtPosition(hairStrands, lastMouseX, lastMouseY, last.color).strands
       = hairStrands

\* C13  Recolor: paintHairAtPosition(x, y, color) sets the colour of exactly
\* the strands within PaintRadius of (x, y), returns true exactly when a
\* strand matched, and leaves everything else, the count and the order alone.
Recolor ==
  [][last'.act = "paint" =>
       /\ Len(hairStrands') = Len(hairStrands)
       /\ \A i \in 1..Len(hairStrands) :
            hairStrands'[i] =
              IF WithinNext(i, PaintRadius)
                THEN [hairStrands[i] EXCEPT !.color = last'.color]
                ELSE hairStrands[i]
       /\ last'.found <=> \E i \in 1..Len(hairStrands) : WithinNext(i, PaintRadius)]_vars

\* a painting that recoloured one strand and left another, out of reach, in
\* a different colour
RecolorWitness ==
  /\ last.act = "paint"
  /\ last.found
  /\ \E i \in 1..Len(hairStrands) :
       Within(i, PaintRadius) /\ StoreStrands[hairStrands[i].sid].color # last.color
  /\ \E i \in 1..Len(hairStrands) :
       ~Within(i, PaintRadius) /\ hairStrands[i].color # last.color

\* C14  Stable removal: after shaveHairAtPosition the store holds exactly the
\* unmatched strands, in their order and unchanged, and the returned sequence
\* holds the matched strands, field for field, in reverse index order.
StableRemoval ==
  [][last'.act = "shave" =>
       /\ hairStrands' =
            SelectSeq(hairStrands, LAMBDA strand :
              Dist2(strand.baseX, strand.baseY, lastMouseX', lastMouseY')
                > ShaveRadius * ShaveRadius)
       /\ last'.removed =
            Reverse(SelectSeq(hairStrands, LAMBDA strand :
              Dist2(strand.baseX, strand.baseY, lastMouseX', lastMouseY')
                <= ShaveRadius * ShaveRadius))]_vars

\* a shave that removed two strands of a store of four
StableRemovalWitness ==
  /\ last.act = "shave"
  /\ Len(last.removed) = 2
  /\ last.removed[1].sid # last.removed[2].sid
  /\ Len(hairStrands) = 2

\* the squared distance of a strand from the point of the last query
QueryDist2(strand) == Dist2(strand.baseX, strand.baseY, last.query[1], last.query[2])

\* C15  Inclusive radius: a strand at distance exactly the radius is matched
\* by paint, shave, comb and findHairStrandsInRadius, and a strand at any
\* greater distance by none of them.
InclusiveRadius ==
  [][/\ last'.act = "paint" =>
          \A i \in 1..Len(hairStrands) :
            IF WithinNext(i, PaintRadius)
              THEN hairStrands'[i].color = last'.color
              ELSE hairStrands'[i] = hairStrands[i]
     /\ last'.act = "shave" =>
          \A i \in 1..Len(hairStrands) :
            IF WithinNext(i, ShaveRadius)
              THEN /\ hairStrands[i].sid \notin Sids(hairStrands')
                   /\ hairStrands[i].sid \in Sids(last'.removed)
              ELSE /\ hairStrands[i].sid \in Sids(hairStrands')
                   /\ hairStrands[i].sid \notin Sids(last'.removed)
     /\ last'.act = "comb" =>
          \A i \in 1..Len(hairStrands) :
            IF WithinNext(i, CombRadius)
              THEN Abs(hairStrands[i].angle - Atan2(last'.dy, last'.dx)) > 1
                     => hairStrands'[i].angle # hairStrands[i].angle
              ELSE hairStrands'[i] = hairStrands[i]
     /\ last'.op = "findHairStrandsInRadius" =>
          last'.matched =
            SelectSeq(hairStrands, LAMBDA strand :
              Dist2(strand.baseX, strand.baseY, last'.query[1], last'.query[2])
                <= last'.query[3] * last'.query[3])]_vars

\* a query that returned a strand exactly on the circle and left out a
\* strand beyond it
InclusiveRadiusWitness ==
  /\ last.op = "findHairStrandsInRadius"
  /\ \E i \in 1..Len(last.matched) :
       QueryDist2(last.matched[i]) = last.query[3] * last.query[3]
  /\ \E i \in 1..Len(hairStrands) :
       /\ QueryDist2(hairStrands[i]) > last.query[3] * last.query[3]
       /\ hairStrands[i].sid \notin Sids(last.matched)

\* the draw calls of the last redrawAllHair
Drawn == last.drawn

\* C16  Layer ordering: redrawAllHair first clears the surface and then draws
\* every strand of the store exactly once, in a sequence that is
\* non-decreasing in layerDepth, whatever the content and order of the store.
LayerOrdering ==
  last.op = "redrawAllHair" =>
    /\ Len(Drawn) = Len(hairStrands) + 1
    /\ Drawn[1].call = "clearRect"
    /\ \A i \in 2..Len(Drawn) : Drawn[i].call = "drawHairStrand"
    /\ \A i \in 1..Len(hairStrands) :
         Cardinality({j \in 2..Len(Drawn) :
                        /\ Drawn[j].sid = hairStrands[i].sid
                        /\ Drawn[j].layerDepth = hairStrands[i].layerDepth}) = 1
    /\ \A i \in 2..Len(Drawn) : \A j \in i..Len(Drawn) :
         Drawn[i].layerDepth <= Drawn[j].layerDepth

\* a redraw of a store that is not in layer order itself
LayerOrderingWitness ==
  /\ last.op = "redrawAllHair"
  /\ Len(hairStrands) > 2
  /\ \E i \in 1..Len(hairStrands) : \E j \in i..Len(hairStrands) :
       hairStrands[i].layerDepth > hairStrands[j].layerDepth

(***************************************************************************)
(* SpecGen: HairSystem.generateHair called again and again on one store,   *)
(* for the male and the female hair style as configured and for the male   *)
(* style reduced to the bounds, each with its layer list or with the       *)
(* fallback list [1.0] that generateHair takes when the style has none.    *)
(***************************************************************************)
MaxGenerations == 2
MaxPopulation == 16200

\* the layer lists generateHair can read: character.hairStyle.layerDepths || [1.0]
LayerLists == { <<1000>>, LayerDepths }

\* the calls of generateHair: the character and the hair style it finds
GenInputs ==
  { [characterType |-> c, style |-> [HairStyles[c] EXCEPT !.layerDepths = l]] :
      c \in {"male", "female"}, l \in LayerLists }
  \cup { [characterType |-> "male", style |-> [ReducedStyle EXCEPT !.layerDepths = l]] :
           l \in LayerLists }

\* a generateHair that keeps the strands of the store and appends to them
generateHairAppending(w, characterType, style, pat) ==
  LET strands == generateHairOf(style, characterType, pat, w.created)
  IN  [w EXCEPT !.hairStrands = @ \o strands,
                !.created = @ + Len(strands),
                !.events = @ + 1,
                !.last = [NoOp("generateHair") EXCEPT !.query = << characterType, style >>]]
\* the call hairSystem.generateHair(characterType) on the store of w
generateHairCall(w, characterType, style, pat) ==
  LET strands == generateHairOf(style, characterType, pat, w.created)
  IN  [w EXCEPT !.hairStrands = strands,
                !.created = @ + Len(strands),
                !.events = @ + 1,
                !.last = [NoOp("generateHair") EXCEPT !.query = << characterType, style >>]]

InitGen == Start(Fresh)

\* the draws of one generation: the same for every strand, or alternating
GenRunPatterns ==
  GenPatternsFor(MaxPopulation)
  \cup { [k \in 1..MaxPopulation |-> CHOOSE d \in GenDraws : d.jx = -1] }

GenerateHair ==
  /\ events < MaxGenerations
  /\ \E input \in GenInputs : \E pat \in GenRunPatterns :
       \E w \in {generateHairCall(World, input.characterType, input.style, pat)} :
         Commit(w)

NextGen == GenerateHair

SpecGen == InitGen /\ [][NextGen]_vars


(***************************************************************************)
(* Generation count.                                                       *)
(***************************************************************************)
\* f[1] + ... + f[n]
RECURSIVE SumTo(_, _)
SumTo(f, n) == IF n = 0 THEN 0 ELSE SumTo(f, n - 1) + f[n]

\* the hair style of the last generateHair call
LastStyle == last.query[2]

\* max(base, floor(radius * multiplier * volumeMultiplier)) of a ring
RingBase(style, radius) ==
  LET scaled == (radius * style.multiplier * style.volumeMultiplier) \div 100
  IN  IF scaled > style.base THEN scaled ELSE style.base

\* the sum over the rings radius 0, step, ..., <= maxRadius of the ring bases,
\* plus centerFillStrands
OnePassCount(style) ==
  LET rings == (style.maxRadius \div style.step) + 1
  IN  SumTo([r \in 1..rings |-> RingBase(style, (r - 1) * style.step)], rings)
      + style.centerFillStrands

\* floor(count * zone.multiplier * layerDepth) as the doubles give it
ZoneLayerShare(count, zone, layerDepth) ==
  ((count * zone.multiplier * layerDepth) \div 10000)
  - (IF count \in ShortProducts(zone, layerDepth) THEN 1 ELSE 0)

\* the sum over the zones and the layers of the shares of the rings within
\* maxRadius * zone.multiplier, plus the share of centerFillStrands of each layer
ZonedCount(style) ==
  LET layers == style.layerDepths
      ringsOf(zone) == ((style.maxRadius * zone.multiplier) \div (10 * style.step)) + 1
      zoneLayer(zone, layerDepth) ==
        SumTo([r \in 1..ringsOf(zone) |->
                 ZoneLayerShare(RingBase(style, (r - 1) * style.step), zone, layerDepth)],
              ringsOf(zone))
      zoneAll(zone) ==
        SumTo([l \in 1..Len(layers) |-> zoneLayer(zone, layers[l])], Len(layers))
  IN  SumTo([z \in 1..Len(VolumeZones) |-> zoneAll(VolumeZones[z])], Len(VolumeZones))
      + SumTo([l \in 1..Len(layers) |-> (style.centerFillStrands * layers[l]) \div 1000],
              Len(layers))

GenerationDeterminism ==
  [][(last'.op = "generateHair") =>
       /\ Len(hairStrands') = created' - created
       /\ \A i \in 1..Len(hairStrands') : hairStrands'[i].sid > created
       /\ (last.op = "generateHair" /\ last'.query = last.query) =>
            Len(hairStrands') = Len(hairStrands)]_vars

\* the female style generated twice in a row: the store holds the 16151 strands
\* of the second call, drawn with the alternating pattern
GenerationDeterminismWitness ==
  /\ last.op = "generateHair"
  /\ events = 2
  /\ LastStyle.maxRadius = 75 /\ LastStyle.layerDepths = LayerDepths
  /\ created = 2 * 16151
  /\ Len(hairStrands) = 16151
  /\ hairStrands[1].sid = 16152
  /\ hairStrands[1].length # hairStrands[2].length


(***************************************************************************)
(* Strand fields.                                                          *)
(***************************************************************************)
\* length > 0 and layerDepth in (0, 1]
StrandFieldsOK(strand) ==
  /\ strand.length > 0
  /\ strand.layerDepth > 0
  /\ strand.layerDepth <= 1000

\* the strand of the sequence hs with identity sid
StrandOf(hs, sid) == hs[CHOOSE i \in 1..Len(hs) : hs[i].sid = sid]

\* C19: every strand of the store (of the tools and of the game after a reset)
\* has length > 0 and layerDepth in (0, 1], whether generateHair or the add
\* tool created it, and no step, so no paint, comb or shave, changes the
\* length or the layerDepth of a strand that stays in the store
StrandInvariant ==
  /\ [](/\ \A i \in 1..Len(hairStrands) : StrandFieldsOK(hairStrands[i])
        /\ \A i \in 1..Len(resetStrands) : StrandFieldsOK(resetStrands[i]))
  /\ [][\A sid \in Sids(hairStrands) \cap Sids(hairStrands') :
          /\ StrandOf(hairStrands', sid).length = StrandOf(hairStrands, sid).length
          /\ StrandOf(hairStrands', sid).layerDepth = StrandOf(hairStrands, sid).layerDepth]_vars

\* a comb stroke has just turned a strand of a store that holds a generated
\* ring strand, a generated centre-fill strand and added strands of two layers
StrandInvariantWitness ==
  /\ last.act = "comb"
  /\ \E i \in 1..Len(hairStrands) : hairStrands[i].sid = 1
  /\ \E i \in 1..Len(hairStrands) : hairStrands[i].sid = GenCount
  /\ \E i, j \in 1..Len(hairStrands) :
       /\ hairStrands[i].sid > GenCount /\ hairStrands[j].sid > GenCount
       /\ hairStrands[i].layerDepth < hairStrands[j].layerDepth
  /\ combs > 0


(***************************************************************************)
(* Particle bound.                                                         *)
(***************************************************************************)
\* the cleanup line canvas.height + cleanupDistance
CleanupLine == CanvasHeight + CleanupDistance

\* C20: every particle of the active list has y <= canvas.height +
\* cleanupDistance; a particle that a step removes has y strictly greater than
\* that bound after the step and had y within the bound before it, and a
\* particle leaves the list in no other way than by such a removal or by the
\* clearing of the whole list in a reset
ParticleBound ==
  /\ [](\A i \in 1..Len(fallingHair) : fallingHair[i].y <= CleanupLine)
  /\ [][/\ \A i \in 1..Len(Swept') :
            /\ Swept'[i].y > CleanupLine
            /\ Swept'[i].y - Swept'[i].fallSpeed <= CleanupLine
        /\ last'.op # "reset" =>
             \A sid \in Sids(fallingHair) \ Sids(fallingHair') :
               \E j \in 1..Len(Swept') : Swept'[j].sid = sid]_vars

\* a step has removed a particle that was on the cleanup line before it, and
\* has left another particle in the list
ParticleBoundWitness ==
  /\ last.op = "frame"
  /\ \E i \in 1..Len(Swept) : Swept[i].y - Swept[i].fallSpeed = CleanupLine
  /\ \E i \in 1..Len(fallingHair) : fallingHair[i].ticks > 0


(***************************************************************************)
(* Per-tick update.                                                        *)
(***************************************************************************)
\* the particle of the sequence ps with identity sid
ParticleOf(ps, sid) == ps[CHOOSE i \in 1..Len(ps) : ps[i].sid = sid]

\* the particles after a step: those still falling and those it removed
AfterStep == fallingHair' \o Swept'

\* particle q is particle p after n steps of updateFallingHair
Advanced(p, q, n) ==
  /\ q.y = p.y + n * p.fallSpeed
  /\ q.x = p.x + n * p.horizontalDrift
  /\ q.rotation = p.rotation + n * p.rotationSpeed
  /\ q.fallSpeed = p.fallSpeed
  /\ q.horizontalDrift = p.horizontalDrift
  /\ q.rotationSpeed = p.rotationSpeed
  /\ q.angle = p.angle /\ q.length = p.length /\ q.color = p.color

\* C21: the three deltas of every particle lie in the configured ranges
\* (fallSpeed in [2, 4], rotationSpeed in [-0.1, 0.1], horizontalDrift in
\* [-0.5, 0.5]); a display frame with one callback pending adds them once
\* to y, rotation and x of every particle, every other handler adds them once
\* for each step it runs, and the deltas, the angle, the length and the colour
\* of a particle never change
PerTickUpdate ==
  /\ [](\A i \in 1..Len(fallingHair) :
          /\ fallingHair[i].fallSpeed >= FallSpeedMin
          /\ fallingHair[i].fallSpeed <= FallSpeedMax
          /\ Abs(fallingHair[i].rotationSpeed) <= RotationSpeedMax
          /\ Abs(fallingHair[i].horizontalDrift) <= HorizontalDriftMax)
  /\ [][\A sid \in Sids(fallingHair) \cap Sids(AfterStep) :
          LET p == ParticleOf(fallingHair, sid)
              q == ParticleOf(AfterStep, sid)
          IN  /\ Advanced(p, q, q.ticks - p.ticks)
              /\ (last'.op = "frame" /\ Len(raf) = 1) => q.ticks = p.ticks + 1]_vars

\* a display frame with one callback pending has moved two particles with
\* different deltas, one of them for the second time
PerTickUpdateWitness ==
  /\ last.op = "frame"
  /\ Len(raf) = 1
  /\ \E i, j \in 1..Len(fallingHair) :
       /\ fallingHair[i].fallSpeed # fallingHair[j].fallSpeed
       /\ fallingHair[i].horizontalDrift # fallingHair[j].horizontalDrift
       /\ fallingHair[i].ticks > 1
       /\ fallingHair[i].y = fallingHair[i].y0 + fallingHair[i].ticks * fallingHair[i].fallSpeed


(***************************************************************************)
(* CharacterManager, constructed on the HairSystem and the PhysicsEngine   *)
(* that the ToolManager holds.  The pulse of the toggle button and its     *)
(* timer change the style of the button only and are left out.             *)
(***************************************************************************)
CharacterIds == {"male", "female"}

\* a clearAllFallingHair that empties the list and leaves the stepper as it is
clearAllHairKeepStepper(w) ==
  LET c == clearCanvas([w EXCEPT !.fallingHair = <<>>])
  IN  [c EXCEPT !.hairStrands = <<>>]
\* CharacterManager.clearAllHair
clearAllHair(w) ==
  LET c == clearCanvas(clearAllFallingHair(w))
  IN  [c EXCEPT !.hairStrands = <<>>]

\* a setCharacter whose delayed generation runs before the ones already pending
setCharacterFirst(w, characterId, regenerateHair) ==
  IF characterId \notin CharacterIds THEN w
  ELSE LET a == [w EXCEPT !.currentCharacter = characterId,
                          !.avatar = AvatarOf(characterId),
                          !.last = [@ EXCEPT !.act = "setCharacter",
                                             !.query = << Len(w.fallingHair) >>]]
       IN  IF regenerateHair
             THEN [clearAllHair(a) EXCEPT
                     !.timers = << [NewTimer("generate") EXCEPT !.characterId = characterId] >> \o @]
             ELSE a
\* CharacterManager.setCharacter; the record keeps the number of particles
\* that were falling at the call
setCharacter(w, characterId, regenerateHair) ==
  IF characterId \notin CharacterIds THEN w
  ELSE LET a == [w EXCEPT !.currentCharacter = characterId,
                          !.avatar = AvatarOf(characterId),
                          !.last = [@ EXCEPT !.act = "setCharacter",
                                             !.query = << Len(w.fallingHair) >>]]
       IN  IF regenerateHair
             THEN [clearAllHair(a) EXCEPT
                     !.timers = Append(@, [NewTimer("generate") EXCEPT !.characterId = characterId])]
             ELSE a

\* CharacterManager.toggleCharacter
toggleCharacter(w) ==
  setCharacter(w, IF w.currentCharacter = "male" THEN "female" ELSE "male", TRUE)

\* the position in the timers of the oldest timer of a kind, 0 when there is none
OldestTimer(ts, kind) ==
  IF \E i \in 1..Len(ts) : ts[i].kind = kind
    THEN CHOOSE i \in 1..Len(ts) :
           ts[i].kind = kind /\ \A j \in 1..(i - 1) : ts[j].kind # kind
    ELSE 0

\* the callback of the timer set by setCharacter: hairSystem.generateHair(characterId);
\* the record keeps the character and the size of the store before the call
generationTimeout(w, pat) ==
  LET i == OldestTimer(w.timers, "generate")
      strands == generateHair(w.timers[i].characterId, pat, w.created)
  IN  [w EXCEPT !.timers = Splice(@, i),
                !.hairStrands = strands,
                !.created = @ + Len(strands),
                !.last = [NoOp("generationTimeout") EXCEPT
                            !.query = << w.timers[i].characterId, Len(w.hairStrands) >>]]

(***************************************************************************)
(* SpecChar: the game with a CharacterManager.  The timers of the          *)
(* rejection feedback stay pending here: they draw on the canvas only.     *)
(***************************************************************************)
ToggleCharacter ==
  /\ isInitialized
  /\ events < MaxEvents
  /\ \E w \in {Event(toggleCharacter([World EXCEPT !.last = NoOp("toggleCharacter")]))} :
       WithinBounds(w) /\ Commit(w)

SetCharacter ==
  /\ isInitialized
  /\ events < MaxEvents
  /\ \E characterId \in CharacterIds \cup {"default"} :
       \E w \in {Event(setCharacter([World EXCEPT !.last = NoOp("setCharacter")],
                                     characterId, TRUE))} :
         WithinBounds(w) /\ Commit(w)

GenerationTimeout ==
  /\ OldestTimer(timers, "generate") > 0
  /\ \E pat \in GenPatterns :
       \E w \in {generationTimeout(World, pat)} : Commit(w)

NextChar ==
  \/ Next
  \/ ToggleCharacter
  \/ SetCharacter
  \/ GenerationTimeout

SpecChar == Init /\ [][NextChar]_vars


\* the number of strands generateHair creates for a character
PopulationOf(characterType) == ZonedCount(ReducedStyleOf(characterType))

\* C22  Character switch rebuild: when the last pending delayed generation has
\* fired, the store holds exactly the population generated for the current
\* character: the generation count of its hair style, every strand created by
\* that generation, with the wave style of the character and the default color
\* of its hair style, whatever switches and tool events came before.
CharacterRebuild ==
  (last.op = "generationTimeout" /\ OldestTimer(timers, "generate") = 0) =>
    /\ Len(hairStrands) = PopulationOf(currentCharacter)
    /\ \A i \in 1..Len(hairStrands) :
         /\ hairStrands[i].sid = created - Len(hairStrands) + i
         /\ hairStrands[i].waveConfig = currentCharacter
         /\ hairStrands[i].color = HairStyles[currentCharacter].defaultColor

\* two switches with an add in between are pending together; the generation
\* for "female" has filled the store, then the one for "male" replaces it
CharacterRebuildWitness ==
  /\ last.op = "generationTimeout"
  /\ OldestTimer(timers, "generate") = 0
  /\ currentCharacter = "male"
  /\ last.query = << "male", PopulationOf("female") >>
  /\ added = StrandsPerClick
  /\ created = GenCount + StrandsPerClick + PopulationOf("female") + PopulationOf("male")
  /\ Len(hairStrands) = PopulationOf("male")


\* C23  Physics cleared on reset: right after a character switch with
\* regeneration or a reset of the game, the particle list is empty, the stepper
\* is idle and the stored handle of the animation frame is null.
PhysicsCleared ==
  (last.act = "setCharacter" \/ last.op = "reset") =>
    /\ fallingHair = <<>>
    /\ ~isAnimating
    /\ animationId = Null

\* a switch of character while two particles were falling
PhysicsClearedWitness ==
  /\ last.op = "toggleCharacter"
  /\ last.act = "setCharacter"
  /\ last.query = << 2 >>
  /\ currentCharacter = "female"
  /\ fallingHair = <<>>
  /\ ~isAnimating
  /\ animationId = Null


(***************************************************************************)
(* SpecInit: HairSalonGame in a host that may lack the canvas element or   *)
(* its 2D context, and the calls of the game that the host makes.  The     *)
(* AudioManager is left out: pause and resume act on the buttons only.     *)
(***************************************************************************)
\* what document.getElementById('hairCanvas') and canvas.getContext('2d') give
Hosts == [hasCanvas : BOOLEAN, hasContext : BOOLEAN]

\* the state after the constructor of HairSalonGame: no system yet
Constructed == [Fresh EXCEPT !.gameHairSystem = 0]

\* an initialize that goes on when initializeCanvas finds nothing
initializeHeadless(w, host, pat) ==
  [initialize(w, pat) EXCEPT !.gameHairSystem = 1, !.last.query = << host >>]
\* HairSalonGame.initialize in a host: initializeCanvas throws when the canvas
\* or the context is missing, handleInitializationError shows the message;
\* the record keeps the host
initializeIn(w, host, pat) ==
  IF host.hasCanvas /\ host.hasContext
    THEN [initialize(w, pat) EXCEPT !.gameHairSystem = 1, !.last.query = << host >>]
    ELSE [w EXCEPT !.last = [NoOp("initialize") EXCEPT !.act = "initializationError",
                                                       !.query = << host >>]]

\* hairStrands of game.hairSystem
gameHairStrands(w) == IF w.gameHairSystem = 2 THEN w.resetStrands ELSE w.hairStrands

\* HairSalonGame.getGameState (without audioStatus and the colour of the picker)
getGameState(w) ==
  IF ~w.isInitialized THEN [initialized |-> FALSE]
  ELSE [initialized |-> TRUE,
        hairCount |-> Len(gameHairStrands(w)),
        fallingHairCount |-> Len(w.fallingHair),
        currentTool |-> w.currentTool,
        uiState |-> [currentTool |-> w.currentTool, buttonsDisabled |-> w.buttonsDisabled]]

\* HairSalonGame.update: updateUI logs the counts
update(w) ==
  IF ~w.isInitialized THEN w
  ELSE [w EXCEPT !.last.query = << getGameState(w) >>]

\* UIController.setLoadingState
setLoadingState(w, isLoading) == [w EXCEPT !.buttonsDisabled = isLoading]

\* HairSalonGame.pause
pause(w) == IF ~w.isInitialized THEN w ELSE setLoadingState(w, TRUE)

\* HairSalonGame.resume
resume(w) == IF ~w.isInitialized THEN w ELSE setLoadingState(w, FALSE)

InitInit == Start(Constructed)

\* initialize runs once, when the page has loaded
InitializeIn ==
  /\ last.op = "new"
  /\ \E host \in Hosts, pat \in GenPatterns :
       \E w \in {initializeIn(World, host, pat)} : Commit(w)

GetGameState ==
  /\ events < MaxEvents
  /\ \E w \in {Event([World EXCEPT !.last = [NoOp("getGameState") EXCEPT
                                                !.query = << getGameState(World) >>]])} :
       Commit(w)

Update ==
  /\ events < MaxEvents
  /\ \E w \in {Event(update([World EXCEPT !.last = NoOp("update")]))} : Commit(w)

Pause ==
  /\ events < MaxEvents
  /\ \E w \in {Event(pause([World EXCEPT !.last = NoOp("pause")]))} : Commit(w)

Resume ==
  /\ events < MaxEvents
  /\ \E w \in {Event(resume([World EXCEPT !.last = NoOp("resume")]))} : Commit(w)

\* reset called by the host at any time
ResetCall ==
  /\ events < MaxEvents
  /\ resets < MaxResets
  /\ \E pat \in GenPatterns :
       \E w \in {Event(reset([World EXCEPT !.last = NoOp("reset")], pat))} :
         WithinBounds(w) /\ Commit(w)

NextInit ==
  \/ InitializeIn
  \/ GetGameState
  \/ Update
  \/ Pause
  \/ Resume
  \/ ResetCall
  \/ MouseDown
  \/ SetTool
  \/ Frame

SpecInit == InitInit /\ [][NextInit]_vars

\* the state of the program, without the bookkeeping of events and of the last call
ProgramState ==
  << isInitialized, hairStrands, gameHairSystem, resetStrands, fallingHair,
     isAnimating, animationId, raf, currentTool, isMouseDown, lastMouseX,
     lastMouseY, avatar, currentCharacter, timers, canvas, buttonsDisabled,
     created, added, cleaned, combs, resets, feedbacks >>

\* the host of the initialize call lacks the canvas or its context
HostLacks(l) ==
  l.op = "initialize" /\ ~(l.query[1].hasCanvas /\ l.query[1].hasContext)

\* C24  Missing collaborator: when the canvas element or its 2D context is
\* absent, initialize ends with isInitialized false, no system of the game and
\* no strand created; from then on getGameState reports initialized false and
\* no call of the game (update, pause, resume, reset) changes the state.
MissingCollaborator ==
  /\ [](HostLacks(last) =>
          /\ ~isInitialized
          /\ gameHairSystem = 0
          /\ hairStrands = <<>>
          /\ created = 0)
  /\ [][(~isInitialized /\ last.op # "new") =>
          /\ UNCHANGED ProgramState
          /\ last'.op \in {"getGameState", "update", "pause", "resume", "reset"}
          /\ last'.op = "getGameState" => last'.query = << [initialized |-> FALSE] >>]_vars

\* after the failed initialize the host has made five calls of the game, the
\* last one getGameState, and nothing exists
MissingCollaboratorWitness ==
  /\ ~isInitialized
  /\ events = 5
  /\ last.op = "getGameState"
  /\ last.query = << [initialized |-> FALSE] >>
  /\ gameHairSystem = 0
  /\ hairStrands = <<>>
  /\ created = 0
  /\ ~buttonsDisabled
  /\ resets = 0


\* C25 as stated  Single animation chain: in every state at most one
\* animation-frame callback of the stepper is pending, so a display frame
\* advances every particle by at most one step, also when shave events remove
\* strands while the animation is running.
SingleChain == Len(raf) <= 1


\* C26 as stated  Reset keeps one store: after reset the store that the tools
\* of the ToolManager read and change is the store that the game regenerated
\* and that getGameState reports as hairCount.
ResetOneStore ==
  resets > 0 =>
    /\ gameHairSystem = 1
    /\ getGameState(World).hairCount = Len(hairStrands)


(***************************************************************************)
(* SpecGuide: the game with the timers of the rejection feedback.  The     *)
(* interval of showBlinkingHairZone ticks every 200 ms and the timeout of  *)
(* the cross fires after 500 ms: between the second and the third tick of  *)
(* the interval set by the same feedback, which is the timer before it.    *)
(***************************************************************************)
\* a callback of the interval that never calls clearInterval
blinkTickNoCancel(w, i) ==
  LET t == w.timers[i]
      d == IF t.blinkCount % 2 = 0 THEN drawHairZoneGuide(w) ELSE clearHairZoneGuide(w)
  IN  [d EXCEPT !.timers[i].blinkCount = t.blinkCount + 1]
\* the callback of the interval of showBlinkingHairZone, for the timer at i
blinkTick(w, i) ==
  LET t == w.timers[i]
      d == IF t.blinkCount % 2 = 0 THEN drawHairZoneGuide(w) ELSE clearHairZoneGuide(w)
      blinkCount == t.blinkCount + 1
  IN  IF blinkCount >= BlinkCount * 2
        THEN clearHairZoneGuide([d EXCEPT !.timers = Splice(@, i)])
        ELSE [d EXCEPT !.timers[i].blinkCount = blinkCount]

\* the callback of the timeout of showInvalidAreaFeedback, for the timer at i
crossTimeout(w, i) ==
  LET t == w.timers[i]
  IN  clearAndRedrawArea([w EXCEPT !.timers = Splice(@, i)], t.x, t.y, CrossClearRadius)

CrossTimeout ==
  \E i \in 2..Len(timers) :
    /\ timers[i].kind = "cross"
    /\ timers[i - 1].kind = "blink"
    /\ timers[i - 1].blinkCount = 2
    /\ \E w \in {crossTimeout([World EXCEPT !.last = NoOp("crossTimeout")], i)} : Commit(w)

\* a tick of a blink interval; the third tick comes after the timeout of the cross
BlinkTick ==
  \E i \in 1..Len(timers) :
    /\ timers[i].kind = "blink"
    /\ ~(/\ timers[i].blinkCount = 2
          /\ i < Len(timers)
          /\ timers[i + 1].kind = "cross")
    /\ \E w \in {blinkTick([World EXCEPT !.last = NoOp("blinkTick")], i)} : Commit(w)

NextGuide ==
  \/ Initialize
  \/ MouseDown
  \/ SetTool
  \/ BlinkTick
  \/ CrossTimeout

SpecGuide == Init /\ [][NextGuide]_vars


\* C27  Mode switch: setTool(name) sets currentTool to name and changes neither
\* the store nor the particle list nor isMouseDown; when the tool that is left
\* is addHair, the whole store is redrawn, which clears the zone guide, while
\* currentTool is still addHair; otherwise nothing is drawn.  The record of a
\* setTool holds the name asked for and then the tool current at the redraw.
ModeSwitch ==
  [][last'.op = "setTool" =>
       /\ currentTool' = last'.query[1]
       /\ UNCHANGED << hairStrands, fallingHair, isMouseDown >>
       /\ currentTool = "addHair" =>
            /\ last'.drawn = redrawAllHair(hairStrands)
            /\ last'.query = << currentTool', "addHair" >>
            /\ ~canvas'.guide
       /\ currentTool # "addHair" =>
            /\ last'.drawn = <<>>
            /\ last'.query = << currentTool' >>
            /\ canvas' = canvas]_vars

\* the add tool is left for the comb while a blink interval is running, after
\* the tick that drew the guide: the store of the generated and the added
\* strands has been redrawn and the guide is gone
ModeSwitchWitness ==
  /\ last.op = "setTool"
  /\ currentTool = "comb"
  /\ last.query = << "comb", "addHair" >>
  /\ Len(timers) > 0
  /\ timers[1].kind = "blink"
  /\ timers[1].blinkCount = 1
  /\ added = StrandsPerClick
  /\ Len(hairStrands) = GenCount + StrandsPerClick
  /\ last.drawn = redrawAllHair(hairStrands)
  /\ ~canvas.guide

\* C28 as stated  Guide only in add mode: the zone guide is on the canvas only
\* while currentTool is addHair, also when a blink interval was running when
\* setTool left addHair.
GuideOnlyInAddMode == canvas.guide => currentTool = "addHair"


(***************************************************************************)
(* SpecPointer: the pointer handlers of the ToolManager at positions one   *)
(* and two pixels apart, so that the deltas of a move between two events   *)
(* lie on both sides of the threshold of the comb.                         *)
(***************************************************************************)
NearPoints == { [x |-> 305 + a, y |-> 205 + b] : a \in 0..2, b \in 0..2 }

MouseDownNear ==
  /\ isInitialized
  /\ events < MaxEvents
  /\ \E pos \in NearPoints, in \in Inputs(currentTool) :
       \E w \in {Event(handleMouseDown(World, pos, in.color, in.addPat, in.partPat))} :
         WithinBounds(w) /\ Commit(w)

MouseMoveNear ==
  /\ isInitialized
  /\ events < MaxEvents
  /\ \E pos \in NearPoints, in \in Inputs(currentTool) :
       \E w \in {Event(handleMouseMove(World, pos, in.color, in.addPat, in.partPat))} :
         WithinBounds(w) /\ Commit(w)

NextPointer ==
  \/ Initialize
  \/ SetTool
  \/ MouseDownNear
  \/ MouseMoveNear
  \/ MouseUp
  \/ MouseLeave

SpecPointer == Init /\ [][NextPointer]_vars


\* C29  Comb branch: with the comb tool a pointer event changes the store only
\* if it is a move with the button down whose delta has |dx| > 1 or |dy| > 1;
\* a pointer-down, and a move with the button down and |dx| <= 1 and
\* |dy| <= 1, take the static branch and leave every strand as it was.
CombBranch ==
  [][(currentTool = "comb" /\ last'.op \in {"mouseDown", "mouseMove"}) =>
       LET dx == lastMouseX' - lastMouseX
           dy == lastMouseY' - lastMouseY
           small == Abs(dx) <= 1 /\ Abs(dy) <= 1
       IN  /\ hairStrands' # hairStrands =>
                (last'.op = "mouseMove" /\ isMouseDown /\ ~small /\ last'.act = "comb")
           /\ (last'.op = "mouseDown" \/ (isMouseDown /\ small)) =>
                (hairStrands' = hairStrands /\ last'.act = "combStatic")
           /\ (last'.op = "mouseMove" /\ isMouseDown /\ ~small) =>
                (last'.act = "comb" /\ last'.dx = dx /\ last'.dy = dy)]_vars

\* after a comb stroke that called combHairAtPosition and changed angles, a
\* move of one pixel to the right with the button down: the static mark
CombBranchWitness ==
  /\ currentTool = "comb"
  /\ isMouseDown
  /\ last.op = "mouseMove"
  /\ last.act = "combStatic"
  /\ last.query = << 1, 0 >>
  /\ combs = 1
  /\ lastMouseX = 306
  /\ lastMouseY = 205
  /\ \E i \in 1..Len(hairStrands) : hairStrands[i].angle # generateHair("male", CHOOSE g \in GenPatterns : TRUE, 0)[i].angle


\* C30  Pointer gating: while isMouseDown is false a pointer move changes
\* neither the store nor the particle list and runs no tool, whatever the
\* tool; pointer-up and pointer-leave change neither and release the button.
PointerGating ==
  [][/\ (last'.op = "mouseMove" /\ ~isMouseDown) =>
          /\ UNCHANGED << hairStrands, fallingHair >>
          /\ last'.act = "none"
          /\ ~isMouseDown'
     /\ last'.op \in {"mouseUp", "mouseLeave"} =>
          /\ UNCHANGED << hairStrands, fallingHair >>
          /\ ~isMouseDown']_vars

\* the shave tool after a stroke that detached a strand and a pointer-up: a
\* move over the strands 29 pixels further down, with the button released
PointerGatingWitness ==
  /\ last.op = "mouseMove"
  /\ last.act = "none"
  /\ last.query = << 0, 29 >>
  /\ ~isMouseDown
  /\ currentTool = "shave"
  /\ Len(fallingHair) = 1
  /\ Len(hairStrands) = GenCount - 1
  /\ lastMouseY = 234


\* the elements of a sequence
Range(seq) == {seq[i] : i \in 1..Len(seq)}

\* C31 as stated  Add uses the active profile: the strands an accepted add
\* creates carry the wave style of the current character, a length within the
\* strand-length range of its hair style (in tenths of a pixel) and a layer
\* depth of its layer list.
AddUsesActiveProfile ==
  [][(AddTried' /\ last'.ok) =>
       \A i \in (Len(hairStrands) + 1)..Len(hairStrands') :
         /\ hairStrands'[i].waveConfig = currentCharacter
         /\ hairStrands'[i].length >= StrandLengthMin * 10
         /\ hairStrands'[i].length <= HairStyles[currentCharacter].strandLengthMax * 10
         /\ hairStrands'[i].layerDepth \in Range(HairStyles[currentCharacter].layerDepths)]_vars

(***************************************************************************)
(* SpecCharZone: the add tool and the CharacterManager at pointer          *)
(* positions that tell the hair zones of the two characters apart.         *)
(***************************************************************************)
\* in both zones; in the male zone only (below the female centre line); in
\* the female zone only (above the male disc); on the female circle and on
\* the female centre line; in neither zone
CharZonePoints ==
  { [x |-> 305, y |-> 205], [x |-> 305, y |-> 215], [x |-> 305, y |-> 125],
    [x |-> 220, y |-> 210], [x |-> 305, y |-> 234] }

MouseDownZone ==
  /\ isInitialized
  /\ events < MaxEvents
  /\ \E pos \in CharZonePoints, in \in Inputs(currentTool) :
       \E w \in {Event(handleMouseDown(World, pos, in.color, in.addPat, in.partPat))} :
         WithinBounds(w) /\ Commit(w)

NextCharZone ==
  \/ Initialize
  \/ SetTool
  \/ ToggleCharacter
  \/ SetCharacter
  \/ GenerationTimeout
  \/ MouseDownZone

SpecCharZone == Init /\ [][NextCharZone]_vars

\* C32  Zone follows the character: GameConfig.avatar always holds the head
\* centre and the hair radius of the current character, and the add tool
\* accepts a point exactly when it lies in the upper half disc of the current
\* character, while a generation is pending and afterwards.
ZoneFollowsCharacter ==
  /\ [](avatar = AvatarOf(currentCharacter))
  /\ [](currentCharacter = "female" =>
          avatar = [centerX |-> 305, centerY |-> 210, hairRadius |-> 85])
  /\ [][AddTried' =>
          (last'.ok <=> InUpperHalfDisc(AvatarOf(currentCharacter),
                                        lastMouseX', lastMouseY'))]_vars

\* with the female character and her generation still pending, an add at
\* (305, 215), which the male zone holds and the female zone does not, is
\* refused, after an add at (305, 125), above the male disc, was accepted
ZoneFollowsCharacterWitness ==
  /\ currentCharacter = "female"
  /\ OldestTimer(timers, "generate") > 0
  /\ AddTried
  /\ ~last.ok
  /\ lastMouseX = 305
  /\ lastMouseY = 215
  /\ added = StrandsPerClick
  /\ \A i \in 1..Len(hairStrands) : hairStrands[i].baseY <= 126

(***************************************************************************)
(* SpecFeedback: the rejection feedback by itself.  Pointer-down events    *)
(* with the default colour and one pattern of draws, the tool buttons and  *)
(* the timers; the timers of the host fire: a tick of an interval and an   *)
(* expired timeout are not put off for ever.                               *)
(***************************************************************************)
MaxFeedbacks == 2

MouseDownPlain ==
  /\ isInitialized
  /\ events < MaxEvents
  /\ \E pos \in Points :
       \E w \in {Event(handleMouseDown(World, pos, NoInput.color, NoInput.addPat,
                                        NoInput.partPat))} :
         WithinBounds(w) /\ w.feedbacks <= MaxFeedbacks /\ Commit(w)

NextFeedback ==
  \/ Initialize
  \/ SetTool
  \/ MouseDownPlain
  \/ BlinkTick
  \/ CrossTimeout

SpecFeedback ==
  Init /\ [][NextFeedback]_vars /\ WF_vars(BlinkTick) /\ WF_vars(CrossTimeout)

\* the step is the k-th tick of the blink interval at position i: below the
\* eighth tick it draws the guide on odd ticks and clears it on even ticks,
\* the eighth tick cancels the interval and leaves the guide cleared
BlinkStep(i) ==
  LET c == timers[i].blinkCount
  IN  /\ timers[i].kind = "blink"
      /\ c <= 7
      /\ c < 7 => /\ timers' = [timers EXCEPT ![i].blinkCount = c + 1]
                  /\ canvas'.guide = (c % 2 = 0)
      /\ c = 7 => /\ timers' = Splice(timers, i)
                  /\ ~canvas'.guide

\* the step is the timeout of the cross at position i: one shot, and the
\* cross at its position is gone
CrossStep(i) ==
  /\ timers[i].kind = "cross"
  /\ timers' = Splice(timers, i)
  /\ << timers[i].x, timers[i].y >> \notin canvas'.cross

\* no feedback timer is pending and neither the guide nor a cross is shown
FeedbackOver ==
  /\ \A i \in 1..Len(timers) : timers[i].kind \notin {"blink", "cross"}
  /\ ~canvas.guide
  /\ canvas.cross = {}

\* C33  Rejection feedback terminates: every rejected add sets one blink
\* interval and one timeout; an interval ticks exactly 8 times, drawing the
\* guide first and then alternating, and its last tick cancels it with the
\* guide cleared; the timeout fires once and clears its cross; in the end no
\* feedback timer is pending and neither guide nor cross is shown, also when
\* the feedbacks of several rejections overlap.
FeedbackTerminates ==
  /\ [][feedbacks' = feedbacks + 1 =>
          /\ Len(timers') = Len(timers) + 2
          /\ SubSeq(timers', 1, Len(timers)) = timers
          /\ timers'[Len(timers) + 1].kind = "blink"
          /\ timers'[Len(timers) + 1].blinkCount = 0
          /\ timers'[Len(timers) + 2].kind = "cross"
          /\ << timers'[Len(timers) + 2].x, timers'[Len(timers) + 2].y >> \in canvas'.cross]_vars
  /\ [][last'.op = "blinkTick" => \E i \in 1..Len(timers) : BlinkStep(i)]_vars
  /\ [][last'.op = "crossTimeout" => \E i \in 1..Len(timers) : CrossStep(i)]_vars
  /\ [][feedbacks' = feedbacks => Len(timers') <= Len(timers)]_vars
  /\ <>[]FeedbackOver

\* two rejections overlapped: the interval of the first has just made its
\* eighth tick and cancelled itself while the interval of the second has made
\* four ticks and its cross is gone
FeedbackTerminatesWitness ==
  /\ feedbacks = 2
  /\ last.op = "blinkTick"
  /\ Len(last.query) = 2
  /\ Len(timers) = 1
  /\ timers[1].kind = "blink"
  /\ timers[1].blinkCount = 4
  /\ ~canvas.guide
  /\ canvas.cross = {}

\* C34  Paint redraw rule: a paint action redraws the whole store exactly when
\* it matched at least one strand and the stepper is not running; when the
\* stepper runs, or nothing matched, paint draws nothing and leaves the canvas.
PaintRedrawRule ==
  [][last'.act = "paint" =>
       /\ last'.found <=>
            \E i \in 1..Len(hairStrands) :
              Dist2(hairStrands[i].baseX, hairStrands[i].baseY, lastMouseX', lastMouseY')
                <= PaintRadius * PaintRadius
       /\ (last'.found /\ ~isAnimating) =>
            /\ last'.drawn = redrawAllHair(hairStrands')
            /\ canvas' = BlankCanvas
       /\ ~(last'.found /\ ~isAnimating) =>
            /\ last'.drawn = <<>>
            /\ canvas' = canvas]_vars

\* a paint that recoloured a strand while a particle was falling: no redraw
PaintRedrawRuleWitness ==
  /\ last.act = "paint"
  /\ last.found
  /\ isAnimating
  /\ Len(fallingHair) > 0
  /\ last.drawn = <<>>
  /\ \E i \in 1..Len(hairStrands) : hairStrands[i].color = last.color /\ last.color # DefaultColor

(***************************************************************************)
(* The drawing of a tick.                                                  *)
(***************************************************************************)
\* the last n entries of a sequence
LastCalls(seq, n) == SubSeq(seq, Len(seq) - n + 1, Len(seq))

\* the calls ending the sequence drawn are those of one tick over the given
\* strands and particles: the clear of the whole canvas, the full redraw of
\* the strands, then one stroke per particle at the particle's position
EndsWithTick(drawn, strands, particles) ==
  LET static == redrawAllHair(strands)
      n == 1 + Len(static) + Len(particles)
      seg == LastCalls(drawn, n)
  IN  /\ Len(drawn) >= n
      /\ seg[1].call = "clearRect"
      /\ SubSeq(seg, 2, 1 + Len(static)) = static
      /\ \A i \in 1..Len(particles) :
           LET c == seg[1 + Len(static) + i]
           IN  /\ c.call = "drawFallingHair"
               /\ c.sid = particles[i].sid
               /\ c.x = particles[i].x
               /\ c.y = particles[i].y
               /\ c.rotation = particles[i].rotation

\* C35  Tick order: a tick that finds particles clears the canvas, redraws all
\* static strands, steps the particles and then draws the remaining ones, so
\* the particle strokes come after the strokes of the static strands and show
\* the positions after the step; a frame with one pending callback draws
\* exactly that, a frame that finds no particle draws nothing, the tick a
\* shave runs draws the same way over the store the shave left, and a frame
\* leaves the strand store unchanged.
TickOrder ==
  [][/\ last'.op = "frame" =>
          /\ hairStrands' = hairStrands
          /\ fallingHair = <<>> => last'.drawn = <<>>
          /\ fallingHair # <<>> =>
               EndsWithTick(last'.drawn, hairStrands, fallingHair')
          /\ (fallingHair # <<>> /\ Len(raf) = 1) =>
               Len(last'.drawn) = 1 + Len(redrawAllHair(hairStrands)) + Len(fallingHair')
     /\ (Shaved' /\ Len(last'.removed) > 0) =>
          EndsWithTick(last'.drawn, hairStrands', fallingHair')]_vars

\* a frame has stepped two particles that stay on the canvas and has drawn
\* them after a store of at least one strand
TickOrderWitness ==
  /\ last.op = "frame"
  /\ Len(fallingHair) >= 2
  /\ Len(hairStrands) >= 1
  /\ fallingHair[1].ticks >= 1
  /\ Len(last.drawn) = 1 + (1 + Len(hairStrands)) + Len(fallingHair)
  /\ last.drawn[Len(last.drawn)].call = "drawFallingHair"
  /\ last.drawn[Len(last.drawn)].y = fallingHair[Len(fallingHair)].y

(***************************************************************************)
(* The particles a shave creates.                                          *)
(***************************************************************************)
\* C36  Particle inheritance: a shave creates one particle per detached
\* strand, in order; each detached strand is a strand the store held when the
\* shave began, and its particle starts at the strand's base (x in half
\* pixels) with the strand's angle, length and color as they were then, its
\* rotation being that angle.
ParticleInheritance ==
  [][Shaved' =>
       /\ Len(last'.particles) = Len(last'.removed)
       /\ \A i \in 1..Len(last'.removed) :
            LET strand == last'.removed[i]
                particle == last'.particles[i]
            IN  /\ \E j \in 1..Len(hairStrands) : hairStrands[j] = strand
                /\ particle.x = 2 * strand.baseX
                /\ particle.y = strand.baseY
                /\ particle.angle = strand.angle
                /\ particle.length = strand.length
                /\ particle.color = strand.color
                /\ particle.rotation = strand.angle]_vars

\* a shave has detached a strand of the first population that was painted
\* red and combed away from every angle the generation gives it, and its
\* particle has the red color and the combed angle
ParticleInheritanceWitness ==
  /\ Shaved
  /\ \E i \in 1..Len(last.removed) :
       /\ last.removed[i].sid <= GenCount
       /\ last.removed[i].color = "#FF0000"
       /\ \A pat \in GenPatterns :
            generateHair("male", pat, 0)[last.removed[i].sid].angle # last.removed[i].angle
       /\ last.particles[i].color = "#FF0000"
       /\ last.particles[i].rotation = last.removed[i].angle

(***************************************************************************)
(* The stepper and the particle list.                                      *)
(***************************************************************************)
\* C37  No stranded particles: after every handler and every frame, a
\* non-empty particle list has the stepper running and a frame callback
\* pending.
NoStrandedParticles ==
  Len(fallingHair) > 0 => (isAnimating /\ Len(raf) > 0)

\* a frame has swept one particle off the canvas while another is still
\* falling, and the stepper runs on with its next callback pending
NoStrandedParticlesWitness ==
  /\ last.op = "frame"
  /\ Len(last.swept) > 0
  /\ Len(fallingHair) > 0
  /\ isAnimating
  /\ Len(raf) > 0

(***************************************************************************)
(* Termination of the stepper.  The host runs the pending animation frame  *)
(* callbacks at every display frame, so a frame that is due is taken.      *)
(***************************************************************************)
SpecStepper == Init /\ [][Next]_vars /\ WF_vars(Frame)

\* no particle, the stepper idle, no callback pending
StepperIdle == fallingHair = <<>> /\ ~isAnimating /\ raf = <<>>

\* C38  Stepper termination: every particle falls by at least FallSpeedMin a
\* tick, a frame moves every particle it keeps further down, and when from
\* some point on no shave occurs while the frames keep firing, the particle
\* list becomes empty and the stepper idle with no callback pending, for good.
StepperTermination ==
  /\ [](\A i \in 1..Len(fallingHair) : fallingHair[i].fallSpeed >= FallSpeedMin)
  /\ [][(last'.op = "frame" /\ Len(fallingHair') = Len(fallingHair)) =>
          \A i \in 1..Len(fallingHair) :
            fallingHair'[i].y >= fallingHair[i].y + FallSpeedMin]_vars
  /\ (<>[][~Shaved']_vars) => <>[]StepperIdle

\* a frame has found the particle list empty after the particles of a shave
\* were swept, and has left the stepper idle with no callback pending
StepperTerminationWitness ==
  /\ last.op = "frame"
  /\ cleaned >= 2
  /\ StepperIdle

(***************************************************************************)
(* The local redraw.                                                       *)
(***************************************************************************)
\* C39 as stated  Local redraw parity: every drawHairStrand call of the local
\* clear-and-redraw after a comb, after a shave without animation and when
\* the cross is cleared is a call the full redraw of the store makes, with
\* the strand's own waveConfig and layerDepth.
LocalRedrawParity ==
  [][(last'.act \in {"comb", "shave"} \/ last'.op = "crossTimeout") =>
       \A i \in 1..Len(last'.drawn) :
         last'.drawn[i].call = "drawHairStrand" =>
            \E j \in 1..Len(hairStrands') :
              /\ hairStrands'[j].sid = last'.drawn[i].sid
              /\ last'.drawn[i].waveConfig = hairStrands'[j].waveConfig
              /\ last'.drawn[i].layerDepth = DepthKey(hairStrands'[j])]_vars

====
